---- MODULE Spec2Model ----
(***************************************************************************)
(* OAuth 2.1 authorization layer of mcp-samples: the OAuth client (token   *)
(* manager, oauth-client.ts), the OAuth callback server (session           *)
(* correlator, oauth-callback-server.ts), the client application that      *)
(* drives them (client.ts, test-oauth-debug.ts) and the resource server    *)
(* (server.ts), as a state machine.                                        *)
(*                                                                         *)
(* Node runs every handler on one thread: code between two awaits is one   *)
(* atomic step, and every await of a network call is a suspension point at *)
(* which any other pending handler may run.  A call in flight is a record  *)
(* in `calls`; its pc names the await it is suspended at.  The await of    *)
(* fetch() and the await of response.json() that follows it touch no       *)
(* shared state in between and are one step.                               *)
(*                                                                         *)
(* The authorization server is an external collaborator: it answers a      *)
(* metadata GET and a token POST with success or failure as it likes, and  *)
(* numbers the token responses it issues (1, 2, ...), so "issued later"    *)
(* is "greater".                                                           *)
(***************************************************************************)
EXTENDS Integers, Sequences, FiniteSets, TLC

VARIABLES
  now,           \* Date.now(), milliseconds
  accessToken,   \* OAuthClient.accessToken, per client instance
  refreshToken,  \* OAuthClient.refreshToken, per client instance
  tokenExpiry,   \* OAuthClient.tokenExpiry, per client instance
  calls,         \* the async calls in flight (and just completed)
  issued,        \* authorization server: number of token responses issued
  latestRt,      \* authorization server: refresh token most recently issued, per client
  authSessions,  \* OAuthCallbackServer.authSessions
  redeemed,      \* per state: a callback answered 200 since it was stored
  exchanged,     \* per client: the access token an exchange stored, while it is the one held
  requests,      \* resource server: the inbound requests being handled
  started,       \* the {client, state, codeVerifier} that startAuthorization has returned
  lastStored,    \* per state: the arguments of the most recent storeSession
  entropy,       \* the number of values crypto.randomBytes has returned
  listening,     \* OAuthCallbackServer: server.listening
  http           \* SimpleMCPClient.sendHTTPRequest: the call in progress

vars == <<now, accessToken, refreshToken, tokenExpiry, calls, issued, latestRt,
          authSessions, redeemed, exchanged, requests, started, lastStored,
          entropy, listening, http>>

tokenVars == <<accessToken, refreshToken, tokenExpiry>>

\* the state of the applications around the OAuth core
appVars == <<entropy, listening, http>>

(***************************************************************************)
(* Bounds of the model and constants of the program.                       *)
(***************************************************************************)
MaxCalls == 1
MaxIssued == 2
MaxTicks == 3

Null == -1
SkewMs == 30000
TickMs == 30 * 1000
StartNow == 1000 * 1000
ExpiresInValues == {Null, 0, 60}

Clients == {"A", "B"}
States == {"s1", "s2"}
\* the authorization attempts whose sessions are stored: the state and verifier
\* that startAuthorization returned to a client instance
Flows == {[state |-> "s1", codeVerifier |-> "v1", oauthClient |-> "A"],
          [state |-> "s2", codeVerifier |-> "v2", oauthClient |-> "B"]}
CallIds == DOMAIN calls

\* A string that holds reserved characters is a sequence of its pieces, so that
\* encoding it is visible; a string without any is an atom.
MCP_SERVER_URI == <<"http", ":", "/", "/", "localhost", ":", "3000">>

\* OAuthConfig of each client instance
Config(c) ==
  IF c = "A"
    THEN [authorizationServer |-> "https://authserver.example.com",
          clientId |-> "agentic_ai",
          clientSecret |-> "secret",
          redirectUri |-> <<"http", ":", "/", "/", "localhost", ":", "3001", "/", "callback">>,
          scope |-> <<"openid", " ", "read", " ", "write">>]
    ELSE [authorizationServer |-> "https://maverics7.stratademo.io",
          clientId |-> "client_b",
          clientSecret |-> "",
          redirectUri |-> <<"https", ":", "/", "/", "app", "/", "cb">>,
          scope |-> <<"mcp", ":", "read", " ", "mcp", ":", "write">>]

\* URLSearchParams serialisation (application/x-www-form-urlencoded) of a value,
\* and the parsing a receiver does
FormEncodeChar(ch) ==
  CASE ch = ":" -> "%3A"
    [] ch = "/" -> "%2F"
    [] ch = " " -> "+"
    [] OTHER -> ch
FormEncode(s) == [i \in DOMAIN s |-> FormEncodeChar(s[i])]
FormDecodeChar(ch) ==
  CASE ch = "%3A" -> ":"
    [] ch = "%2F" -> "/"
    [] ch = "+" -> " "
    [] OTHER -> ch
FormDecode(s) == [i \in DOMAIN s |-> FormDecodeChar(s[i])]

\* JavaScript truthiness of a value that is null/undefined, a number or a token
Truthy(x) == x # Null /\ x # 0

NoResp == [st |-> "none", at |-> Null, rt |-> Null, exp |-> Null]
PendingResp == [st |-> "pending", at |-> Null, rt |-> Null, exp |-> Null]
ErrResp == [st |-> "err", at |-> Null, rt |-> Null, exp |-> Null]

\* the token responses the server may issue as its n-th: access_token n, a
\* rotated refresh_token n or none, expires_in present or absent
OkResps(n) == {[st |-> "ok", at |-> n, rt |-> r, exp |-> e] :
                 r \in {Null, n}, e \in ExpiresInValues}

\* a token held since before the first response counted by `issued`
PriorToken == MaxIssued + 1

NoSession == [state |-> "", codeVerifier |-> "", oauthClient |-> ""]

\* no token request sent / no authorization URL built
NoRequest == [grant_type |-> "", client_id |-> "", code |-> "", redirect_uri |-> <<>>,
              code_verifier |-> "", refresh_token |-> Null, resource |-> <<>>,
              basicAuth |-> ""]
NoUrl == [base |-> "", response_type |-> "", client_id |-> "", redirect_uri |-> <<>>,
          scope |-> <<>>, state |-> "", code_challenge |-> <<>>,
          code_challenge_method |-> "", resource |-> <<>>]

\* a property of a parsed JSON document that the document does not have
Undefined == ""
\* `${x}` in a template literal
TemplateString(x) == IF x = Undefined THEN "undefined" ELSE x

\* the authorization server's metadata document, by the endpoints it names
NoMetadata == [authorization_endpoint |-> Undefined, token_endpoint |-> Undefined,
               registration_endpoint |-> Undefined, fetched |-> FALSE]
CompleteMetadata == [authorization_endpoint |-> "https://as/authorize",
                     token_endpoint |-> "https://as/token",
                     registration_endpoint |-> "https://as/register",
                     fetched |-> TRUE]
MetadataDocs == [authorization_endpoint : {Undefined, "https://as/authorize"},
                 token_endpoint : {Undefined, "https://as/token"},
                 registration_endpoint : {Undefined, "https://as/register"},
                 fetched : {TRUE}]

\* no registration POST sent
NoRegistration == [client_name |-> "", client_uri |-> <<>>, redirect_uris |-> <<>>,
                   grant_types |-> "", response_types |-> "",
                   token_endpoint_auth_method |-> "", scope |-> <<>>]

NoCall == [op |-> "none", pc |-> "idle", client |-> "", code |-> "",
           codeVerifier |-> "", state |-> "", expectedState |-> "",
           sentRt |-> Null, resp |-> NoResp, gets |-> 0, posts |-> 0,
           refreshed |-> FALSE, result |-> Null, valid |-> FALSE, err |-> "",
           error |-> "", status |-> 0, request |-> NoRequest, authUrl |-> NoUrl,
           lookedUp |-> FALSE, metadata |-> NoMetadata, registration |-> NoRegistration,
           regPosts |-> 0, regOutcome |-> "", urlShown |-> FALSE, session |-> NoSession,
           codeChallenge |-> <<>>, responses |-> 0]

\* no sendHTTPRequest in progress
NoHttp == [pc |-> "idle", client |-> "", call |-> 0, posts |-> 0, refreshes |-> 0,
           sent |-> <<>>, status |-> 0, outcome |-> ""]

FreeSlots == {i \in CallIds : calls[i].op = "none"}
NextSlot == CHOOSE i \in FreeSlots : \A j \in FreeSlots : i <= j
InFlight == {i \in CallIds : calls[i].op # "none" /\ calls[i].pc \notin {"done", "failed"}}
NetPending == {i \in CallIds : calls[i].pc \in {"x_meta", "x_post", "r_meta", "r_post"}}

\* as Fail, but the catch block of the /callback handler sends the success page
FailAnswersSuccess(rec, e) ==
  IF rec.op = "callback"
    THEN [rec EXCEPT !.pc = "done", !.err = e, !.status = 200, !.responses = @ + 1, !.resp = NoResp]
    ELSE [rec EXCEPT !.pc = "failed", !.err = e, !.resp = NoResp]
\* a call that throws: a rejected promise for a direct caller, the catch block
\* (500) of the /callback handler
Fail(rec, e) ==
  IF rec.op = "callback"
    THEN [rec EXCEPT !.pc = "done", !.err = e, !.status = 500, !.responses = @ + 1, !.resp = NoResp]
    ELSE [rec EXCEPT !.pc = "failed", !.err = e, !.resp = NoResp]

(***************************************************************************)
(* OAuthClient                                                             *)
(***************************************************************************)
StateMismatchNever(state, expectedState) == FALSE
StateMismatch(state, expectedState) == state # expectedState

\* exchangeCodeForTokens up to its first await: the state check, then the
\* metadata GET is issued
ExchangeEnter(rec) ==
  IF StateMismatch(rec.state, rec.expectedState)
    THEN Fail(rec, "csrf")
    ELSE [rec EXCEPT !.pc = "x_meta", !.gets = @ + 1]

\* refreshAccessToken up to its first await
RefreshEnter(rec) ==
  IF ~Truthy(refreshToken[rec.client])
    THEN Fail(rec, "no_refresh_token")
    ELSE [rec EXCEPT !.pc = "r_meta", !.gets = @ + 1, !.refreshed = TRUE]

NeedsRefreshAnyExpiry(c) == Truthy(tokenExpiry[c])
NeedsRefreshAtOrAfter(c) == Truthy(tokenExpiry[c]) /\ now >= tokenExpiry[c] - SkewMs
NeedsRefresh(c) == Truthy(tokenExpiry[c]) /\ now > tokenExpiry[c] - SkewMs

HasValidTokenWithSkew(c) ==
  Truthy(accessToken[c]) /\ (~Truthy(tokenExpiry[c]) \/ now < tokenExpiry[c] - SkewMs)
HasValidTokenInclusive(c) ==
  Truthy(accessToken[c]) /\ (~Truthy(tokenExpiry[c]) \/ now <= tokenExpiry[c])
HasValidToken(c) ==
  Truthy(accessToken[c]) /\ (~Truthy(tokenExpiry[c]) \/ now < tokenExpiry[c])

ExpiryOf(expires_in) ==
  IF Truthy(expires_in) THEN now + expires_in * 1000 ELSE Null

ExchangedRefreshToken(c, rt) == IF Truthy(rt) THEN rt ELSE Null

RefreshedRefreshTokenCleared(c, rt) == IF Truthy(rt) THEN rt ELSE Null
RefreshedRefreshToken(c, rt) == IF Truthy(rt) THEN rt ELSE refreshToken[c]

\* the URL of the metadata GET
MetadataUrl(c) == <<Config(c).authorizationServer, "/.well-known/oauth-authorization-server">>

\* the Authorization header of a token request: Basic clientId:clientSecret
\* when the configuration holds a client secret
BasicAuth(c) ==
  IF Config(c).clientSecret # "" THEN Config(c).clientId ELSE ""

ResourceOmitted == <<>>
ResourceParam == FormEncode(MCP_SERVER_URI)

\* the form body exchangeCodeForTokens POSTs
ExchangeRequest(rec) ==
  [grant_type |-> "authorization_code",
   client_id |-> Config(rec.client).clientId,
   code |-> rec.code,
   redirect_uri |-> FormEncode(Config(rec.client).redirectUri),
   code_verifier |-> rec.codeVerifier,
   refresh_token |-> Null,
   resource |-> ResourceParam,
   basicAuth |-> BasicAuth(rec.client)]

\* the form body refreshAccessToken POSTs
RefreshRequest(rec) ==
  [grant_type |-> "refresh_token",
   client_id |-> Config(rec.client).clientId,
   code |-> "",
   redirect_uri |-> <<>>,
   code_verifier |-> "",
   refresh_token |-> refreshToken[rec.client],
   resource |-> ResourceParam,
   basicAuth |-> BasicAuth(rec.client)]

\* the verifier itself as its challenge (method plain)
CodeChallengePlain(v) == <<"plain", v>>
\* generatePKCE: the S256 challenge of a verifier (base64url of its SHA-256)
CodeChallenge(v) == <<"S256", v>>

\* the authorization URL startAuthorization builds:
\* `${metadata.authorization_endpoint}?${params}`
AuthorizationUrl(c, metadata, state, codeVerifier) ==
  [base |-> TemplateString(metadata.authorization_endpoint),
   response_type |-> "code",
   client_id |-> Config(c).clientId,
   redirect_uri |-> FormEncode(Config(c).redirectUri),
   scope |-> FormEncode(Config(c).scope),
   state |-> state,
   code_challenge |-> CodeChallenge(codeVerifier),
   code_challenge_method |-> "S256",
   resource |-> ResourceParam]

\* startAuthorization up to its first await
StartEnter(rec) == [rec EXCEPT !.pc = "s_meta", !.gets = @ + 1]

CallStart(c) ==
  /\ FreeSlots # {}
  /\ calls' = [calls EXCEPT ![NextSlot] =
       StartEnter([NoCall EXCEPT !.op = "start", !.client = c])]
  /\ UNCHANGED <<now, tokenVars, issued, latestRt, authSessions, redeemed, exchanged, requests, started, lastStored, appVars>>

\* SimpleMCPClient.initializeAuth after `await startAuthorization()`: the URL is
\* printed, a simulated authorization code is made up, and
\* exchangeCodeForTokens(simulatedCode, codeVerifier, state, state) is called
SimulatedCode == "demo_authorization_code"
AuthorizeSimulated(rec) ==
  ExchangeEnter([rec EXCEPT !.urlShown = TRUE, !.code = SimulatedCode,
                            !.expectedState = rec.state])

\* startAuthorization returns {authUrl, state, codeVerifier} to its caller
StartReturned(rec) ==
  IF rec.op = "initializeAuth" THEN AuthorizeSimulated(rec) ELSE [rec EXCEPT !.pc = "done"]

\* crypto.randomBytes(size): the n-th value the source returns, a buffer of
\* `size` bytes.  The source is cryptographic: buffers of 16 or 32 bytes do not
\* repeat, so the n-th buffer is written as the number n.
RandomBytes(size, n) == [size |-> size, value |-> n]
\* Buffer.toString('hex') and Buffer.toString('base64url') of a buffer, by the
\* encodings of its last byte
HexDigits == <<"00", "01", "02", "03", "04", "05", "06", "07">>
Base64UrlDigits == <<"AA", "AQ", "Ag", "Aw", "BA", "BQ", "Bg", "Bw">>
Hex(bytes) == HexDigits[bytes.value + 1]
Base64Url(bytes) == Base64UrlDigits[bytes.value + 1]

\* as GeneratePKCE, but the verifier of the first call is kept for later ones
GeneratePKCECached(n) ==
  [codeVerifier |-> Base64Url(RandomBytes(32, 0)),
   codeChallenge |-> CodeChallenge(Base64Url(RandomBytes(32, 0)))]
\* generatePKCE and generateState, when the source has returned n values
GeneratePKCE(n) ==
  [codeVerifier |-> Base64Url(RandomBytes(32, n)),
   codeChallenge |-> CodeChallenge(Base64Url(RandomBytes(32, n)))]
GenerateState(n) == Hex(RandomBytes(16, n))

\* the metadata GET of startAuthorization answers; on success the PKCE pair
\* and the state are generated and the URL is returned
StartWith(p, ok, metadata, state, codeVerifier) ==
  /\ calls[p].pc = "s_meta"
  /\ calls' = [calls EXCEPT ![p] =
       IF ~ok THEN Fail(@, "metadata")
       ELSE StartReturned(
              [@ EXCEPT !.metadata = metadata, !.state = state,
                        !.codeVerifier = codeVerifier,
                        !.authUrl = AuthorizationUrl(calls[p].client, metadata, state,
                                                     codeVerifier)])]
  /\ started' = IF ok
                  THEN started \cup {[state |-> state, codeVerifier |-> codeVerifier,
                                      oauthClient |-> calls[p].client]}
                  ELSE started

\* the same with the generated values given by name (random: any values)
StartAnswered(p, ok, metadata, state, codeVerifier) ==
  /\ StartWith(p, ok, metadata, state, codeVerifier)
  /\ UNCHANGED <<now, tokenVars, issued, latestRt, authSessions, redeemed, exchanged, requests,
                 lastStored, appVars>>

\* the same with the values drawn from the random source: generatePKCE draws
\* first, generateState second
StartAuthorization(p, ok, metadata) ==
  /\ StartWith(p, ok, metadata, GenerateState(entropy + 1), GeneratePKCE(entropy).codeVerifier)
  /\ entropy' = IF ok THEN entropy + 2 ELSE entropy
  /\ UNCHANGED <<now, tokenVars, issued, latestRt, authSessions, redeemed, exchanged, requests,
                 lastStored, listening, http>>

\* generatePKCE and generateState called by themselves (test-oauth-debug)
CallGeneratePKCE(c) ==
  /\ FreeSlots # {}
  /\ calls' = [calls EXCEPT ![NextSlot] =
       [NoCall EXCEPT !.op = "generatePKCE", !.client = c, !.pc = "done",
                      !.codeVerifier = GeneratePKCE(entropy).codeVerifier,
                      !.codeChallenge = GeneratePKCE(entropy).codeChallenge]]
  /\ entropy' = entropy + 1
  /\ UNCHANGED <<now, tokenVars, issued, latestRt, authSessions, redeemed, exchanged, requests,
                 started, lastStored, listening, http>>

CallGenerateState(c) ==
  /\ FreeSlots # {}
  /\ calls' = [calls EXCEPT ![NextSlot] =
       [NoCall EXCEPT !.op = "generateState", !.client = c, !.pc = "done",
                      !.state = GenerateState(entropy)]]
  /\ entropy' = entropy + 1
  /\ UNCHANGED <<now, tokenVars, issued, latestRt, authSessions, redeemed, exchanged, requests,
                 started, lastStored, listening, http>>

\* the same against an authorization server whose document names every endpoint
StartResume(p, ok, state, codeVerifier) ==
  StartAnswered(p, ok, CompleteMetadata, state, codeVerifier)

\* the body registerClient POSTs (JSON)
RegistrationRequest(c) ==
  [client_name |-> "Sample MCP Client",
   client_uri |-> <<"http", ":", "/", "/", "localhost", ":", "3001">>,
   redirect_uris |-> Config(c).redirectUri,
   grant_types |-> "authorization_code",
   response_types |-> "code",
   token_endpoint_auth_method |-> "client_secret_basic",
   scope |-> Config(c).scope]

\* registerClient throws; initializeAuth catches and goes on
RegisterFailedFatal(rec, e) == Fail([rec EXCEPT !.regOutcome = e], e)
RegisterFailed(rec, e) ==
  IF rec.op = "initializeAuth"
    THEN StartEnter([rec EXCEPT !.regOutcome = e])
    ELSE Fail([rec EXCEPT !.regOutcome = e], e)

\* registerClient returns {clientId, clientSecret}; initializeAuth only logs it
RegisterReturned(rec) ==
  IF rec.op = "initializeAuth"
    THEN StartEnter([rec EXCEPT !.regOutcome = "registered"])
    ELSE [rec EXCEPT !.pc = "done", !.regOutcome = "registered"]

\* registerClient up to its first await
RegisterEnter(rec) == [rec EXCEPT !.pc = "reg_meta", !.gets = @ + 1]

CallRegister(c) ==
  /\ FreeSlots # {}
  /\ calls' = [calls EXCEPT ![NextSlot] =
       RegisterEnter([NoCall EXCEPT !.op = "register", !.client = c])]
  /\ UNCHANGED <<now, tokenVars, issued, latestRt, authSessions, redeemed, exchanged, requests, started, lastStored, appVars>>

\* initializeAuth up to its first await: `await this.oauthClient.registerClient()`
CallInitializeAuth(c) ==
  /\ FreeSlots # {}
  /\ calls' = [calls EXCEPT ![NextSlot] =
       RegisterEnter([NoCall EXCEPT !.op = "initializeAuth", !.client = c])]
  /\ UNCHANGED <<now, tokenVars, issued, latestRt, authSessions, redeemed, exchanged, requests, started, lastStored, appVars>>

\* the metadata GET of registerClient answers
RegisterMetadata(p, ok, metadata) ==
  /\ calls[p].pc = "reg_meta"
  /\ calls' = [calls EXCEPT ![p] =
       IF ~ok THEN RegisterFailed(@, "metadata")
       ELSE IF metadata.registration_endpoint = Undefined
         THEN RegisterFailed([@ EXCEPT !.metadata = metadata], "unsupported")
         ELSE [@ EXCEPT !.pc = "reg_post", !.metadata = metadata, !.regPosts = @ + 1,
                        !.registration = RegistrationRequest(calls[p].client)]]
  /\ UNCHANGED <<now, tokenVars, issued, latestRt, authSessions, redeemed, exchanged, requests, started, lastStored, appVars>>

\* the registration POST answers
RegisterResponse(p, ok) ==
  /\ calls[p].pc = "reg_post"
  /\ calls' = [calls EXCEPT ![p] =
       IF ok THEN RegisterReturned(@) ELSE RegisterFailed(@, "rejected")]
  /\ UNCHANGED <<now, tokenVars, issued, latestRt, authSessions, redeemed, exchanged, requests, started, lastStored, appVars>>

\* getAuthorizationServerMetadata called on its own
CallGetMetadata(c) ==
  /\ FreeSlots # {}
  /\ calls' = [calls EXCEPT ![NextSlot] =
       [NoCall EXCEPT !.op = "metadata", !.client = c, !.pc = "m_get", !.gets = 1]]
  /\ UNCHANGED <<now, tokenVars, issued, latestRt, authSessions, redeemed, exchanged, requests, started, lastStored, appVars>>

\* getAuthorizationServerMetadata: throws when !response.ok, else returns the
\* parsed document as it is
MetadataReturned(rec, ok, metadata) ==
  IF ok THEN [rec EXCEPT !.pc = "done", !.metadata = metadata]
        ELSE Fail(rec, "metadata")

GetMetadataAnswered(p, ok, metadata) ==
  /\ calls[p].pc = "m_get"
  /\ calls' = [calls EXCEPT ![p] = MetadataReturned(@, ok, metadata)]
  /\ UNCHANGED <<now, tokenVars, issued, latestRt, authSessions, redeemed, exchanged, requests, started, lastStored, appVars>>

CallExchange(c, code, v, s, e) ==
  /\ FreeSlots # {}
  /\ calls' = [calls EXCEPT ![NextSlot] =
       ExchangeEnter([NoCall EXCEPT !.op = "exchange", !.client = c, !.code = code,
                        !.codeVerifier = v, !.state = s, !.expectedState = e])]
  /\ UNCHANGED <<now, tokenVars, issued, latestRt, authSessions, redeemed, exchanged, requests, started, lastStored, appVars>>

CallRefresh(c) ==
  /\ FreeSlots # {}
  /\ calls' = [calls EXCEPT ![NextSlot] =
       RefreshEnter([NoCall EXCEPT !.op = "refresh", !.client = c])]
  /\ UNCHANGED <<now, tokenVars, issued, latestRt, authSessions, redeemed, exchanged, requests, started, lastStored, appVars>>

\* as GetValidEnter, without the check that an access token is held
GetValidEnterUnchecked(rec) ==
  IF NeedsRefresh(rec.client)
    THEN RefreshEnter(rec)
    ELSE [rec EXCEPT !.pc = "done", !.result = accessToken[rec.client]]

\* getValidAccessToken up to its first await
GetValidEnter(rec) ==
  IF ~Truthy(accessToken[rec.client])
    THEN Fail(rec, "not_authenticated")
    ELSE IF NeedsRefresh(rec.client)
      THEN RefreshEnter(rec)
      ELSE [rec EXCEPT !.pc = "done", !.result = accessToken[rec.client]]

CallGetValid(c) ==
  /\ FreeSlots # {}
  /\ calls' = [calls EXCEPT ![NextSlot] =
       GetValidEnter([NoCall EXCEPT !.op = "gva", !.client = c])]
  /\ UNCHANGED <<now, tokenVars, issued, latestRt, authSessions, redeemed, exchanged, requests, started, lastStored, appVars>>

\* as MetadataAnswered, but a failed metadata GET is issued a second time
MetadataAnsweredRetrying(p, ok, metadata) ==
  /\ calls[p].pc \in {"x_meta", "r_meta"}
  /\ calls' = [calls EXCEPT ![p] =
       IF ~ok /\ @.gets < 2 THEN [@ EXCEPT !.gets = @ + 1]
       ELSE IF ~ok THEN Fail(@, "metadata")
       ELSE IF metadata.token_endpoint = Undefined
         THEN Fail([@ EXCEPT !.metadata = metadata], "fetch")
       ELSE IF @.pc = "x_meta"
         THEN [@ EXCEPT !.pc = "x_post", !.posts = @ + 1, !.resp = PendingResp,
                        !.metadata = metadata,
                        !.request = ExchangeRequest(calls[p])]
         ELSE [@ EXCEPT !.pc = "r_post", !.posts = @ + 1, !.resp = PendingResp,
                        !.metadata = metadata,
                        !.sentRt = refreshToken[calls[p].client],
                        !.request = RefreshRequest(calls[p])]]
  /\ UNCHANGED <<now, tokenVars, issued, latestRt, authSessions, redeemed, exchanged, requests, started, lastStored, appVars>>
\* the metadata GET of getAuthorizationServerMetadata answers; on success the
\* caller builds its token request (refresh reads this.refreshToken here) and
\* calls fetch(metadata.token_endpoint, ..): node-fetch rejects an undefined URL
\* ("Only absolute URLs are supported") and sends nothing, else the POST leaves
MetadataAnswered(p, ok, metadata) ==
  /\ calls[p].pc \in {"x_meta", "r_meta"}
  /\ calls' = [calls EXCEPT ![p] =
       IF ~ok THEN Fail(@, "metadata")
       ELSE IF metadata.token_endpoint = Undefined
         THEN Fail([@ EXCEPT !.metadata = metadata], "fetch")
       ELSE IF @.pc = "x_meta"
         THEN [@ EXCEPT !.pc = "x_post", !.posts = @ + 1, !.resp = PendingResp,
                        !.metadata = metadata,
                        !.request = ExchangeRequest(calls[p])]
         ELSE [@ EXCEPT !.pc = "r_post", !.posts = @ + 1, !.resp = PendingResp,
                        !.metadata = metadata,
                        !.sentRt = refreshToken[calls[p].client],
                        !.request = RefreshRequest(calls[p])]]
  /\ UNCHANGED <<now, tokenVars, issued, latestRt, authSessions, redeemed, exchanged, requests, started, lastStored, appVars>>

\* the same against an authorization server whose document names every endpoint
MetadataResponse(p, ok) == MetadataAnswered(p, ok, CompleteMetadata)

\* the authorization server handles a token POST
ServerToken(p, r) ==
  /\ calls[p].pc \in {"x_post", "r_post"}
  /\ calls[p].resp.st = "pending"
  /\ r.st = "ok" => issued < MaxIssued
  /\ calls' = [calls EXCEPT ![p].resp = r]
  /\ issued' = IF r.st = "ok" THEN issued + 1 ELSE issued
  /\ latestRt' = IF r.st = "ok" /\ r.rt # Null
                   THEN [latestRt EXCEPT ![calls[p].client] = r.rt]
                   ELSE latestRt
  /\ UNCHANGED <<now, tokenVars, authSessions, redeemed, exchanged, requests, started, lastStored, appVars>>

\* as ExchangeResponse, with token fields that all client instances share
ExchangeResponseShared(p) ==
  LET rec == calls[p]
  IN
  /\ rec.pc = "x_post"
  /\ rec.resp.st \in {"ok", "err"}
  /\ IF rec.resp.st = "err"
       THEN /\ calls' = [calls EXCEPT ![p] = Fail(rec, "token")]
            /\ UNCHANGED <<tokenVars, exchanged>>
       ELSE /\ accessToken' = [c \in Clients |-> rec.resp.at]
            /\ refreshToken' = [c \in Clients |-> ExchangedRefreshToken(c, rec.resp.rt)]
            /\ tokenExpiry' = [c \in Clients |-> ExpiryOf(rec.resp.exp)]
            /\ calls' = [calls EXCEPT ![p] =
                 IF rec.op = "callback"
                   THEN [rec EXCEPT !.pc = "cb_resume"]
                   ELSE [rec EXCEPT !.pc = "done", !.result = rec.resp.at, !.resp = NoResp]]
            /\ exchanged' = [c \in Clients |-> rec.resp.at]
  /\ UNCHANGED <<now, issued, latestRt, authSessions, redeemed, requests, started, lastStored, appVars>>

\* as ExchangeResponse, but the fields are written before response.ok is looked at
ExchangeResponseStoresFirst(p) ==
  LET rec == calls[p]
      c == rec.client
  IN
  /\ rec.pc = "x_post"
  /\ rec.resp.st \in {"ok", "err"}
  /\ accessToken' = [accessToken EXCEPT ![c] = rec.resp.at]
  /\ refreshToken' = [refreshToken EXCEPT ![c] = ExchangedRefreshToken(c, rec.resp.rt)]
  /\ tokenExpiry' = [tokenExpiry EXCEPT ![c] = ExpiryOf(rec.resp.exp)]
  /\ exchanged' = [exchanged EXCEPT ![c] = rec.resp.at]
  /\ calls' = [calls EXCEPT ![p] =
       IF rec.resp.st = "err" THEN Fail(rec, "token")
       ELSE IF rec.op = "callback"
         THEN [rec EXCEPT !.pc = "cb_resume"]
         ELSE [rec EXCEPT !.pc = "done", !.result = rec.resp.at, !.resp = NoResp]]
  /\ UNCHANGED <<now, issued, latestRt, authSessions, redeemed, requests, started, lastStored, appVars>>

\* the token response reaches exchangeCodeForTokens
ExchangeResponse(p) ==
  LET rec == calls[p]
      c == rec.client
  IN
  /\ rec.pc = "x_post"
  /\ rec.resp.st \in {"ok", "err"}
  /\ IF rec.resp.st = "err"
       THEN /\ calls' = [calls EXCEPT ![p] = Fail(rec, "token")]
            /\ UNCHANGED <<tokenVars, exchanged>>
       ELSE /\ accessToken' = [accessToken EXCEPT ![c] = rec.resp.at]
            /\ refreshToken' = [refreshToken EXCEPT ![c] = ExchangedRefreshToken(c, rec.resp.rt)]
            /\ tokenExpiry' = [tokenExpiry EXCEPT ![c] = ExpiryOf(rec.resp.exp)]
            /\ calls' = [calls EXCEPT ![p] =
                 IF rec.op = "callback"
                   THEN [rec EXCEPT !.pc = "cb_resume"]
                   ELSE [rec EXCEPT !.pc = "done", !.result = rec.resp.at, !.resp = NoResp]]
            /\ exchanged' = [exchanged EXCEPT ![c] = rec.resp.at]
  /\ UNCHANGED <<now, issued, latestRt, authSessions, redeemed, requests, started, lastStored, appVars>>

\* as RefreshResponse, but the fields are written before response.ok is looked at
RefreshResponseStoresFirst(p) ==
  LET rec == calls[p]
      c == rec.client
  IN
  /\ rec.pc = "r_post"
  /\ rec.resp.st \in {"ok", "err"}
  /\ accessToken' = [accessToken EXCEPT ![c] = rec.resp.at]
  /\ refreshToken' = [refreshToken EXCEPT ![c] = RefreshedRefreshToken(c, rec.resp.rt)]
  /\ tokenExpiry' = [tokenExpiry EXCEPT ![c] = ExpiryOf(rec.resp.exp)]
  /\ exchanged' = [exchanged EXCEPT ![c] = Null]
  /\ calls' = [calls EXCEPT ![p] =
       IF rec.resp.st = "err" THEN Fail(rec, "token")
       ELSE IF rec.op = "gva"
         THEN [rec EXCEPT !.pc = "g_resume"]
         ELSE [rec EXCEPT !.pc = "done", !.result = rec.resp.at, !.resp = NoResp]]
  /\ UNCHANGED <<now, issued, latestRt, authSessions, redeemed, requests, started, lastStored, appVars>>

\* the token response reaches refreshAccessToken
RefreshResponse(p) ==
  LET rec == calls[p]
      c == rec.client
  IN
  /\ rec.pc = "r_post"
  /\ rec.resp.st \in {"ok", "err"}
  /\ IF rec.resp.st = "err"
       THEN /\ calls' = [calls EXCEPT ![p] = Fail(rec, "token")]
            /\ UNCHANGED <<tokenVars, exchanged>>
       ELSE /\ accessToken' = [accessToken EXCEPT ![c] = rec.resp.at]
            /\ refreshToken' = [refreshToken EXCEPT ![c] = RefreshedRefreshToken(c, rec.resp.rt)]
            /\ tokenExpiry' = [tokenExpiry EXCEPT ![c] = ExpiryOf(rec.resp.exp)]
            /\ exchanged' = [exchanged EXCEPT ![c] = Null]
            /\ calls' = [calls EXCEPT ![p] =
                 IF rec.op = "gva"
                   THEN [rec EXCEPT !.pc = "g_resume"]
                   ELSE [rec EXCEPT !.pc = "done", !.result = rec.resp.at, !.resp = NoResp]]
  /\ UNCHANGED <<now, issued, latestRt, authSessions, redeemed, requests, started, lastStored, appVars>>

\* getValidAccessToken resumes after `await this.refreshAccessToken()`
GetValidResume(p) ==
  /\ calls[p].pc = "g_resume"
  /\ calls' = [calls EXCEPT ![p] =
       [@ EXCEPT !.pc = "done", !.result = accessToken[calls[p].client], !.resp = NoResp]]
  /\ UNCHANGED <<now, tokenVars, issued, latestRt, authSessions, redeemed, exchanged, requests, started, lastStored, appVars>>

CallHasValidToken(c) ==
  /\ FreeSlots # {}
  /\ calls' = [calls EXCEPT ![NextSlot] =
       [NoCall EXCEPT !.op = "hvt", !.client = c, !.pc = "done",
                      !.valid = HasValidToken(c)]]
  /\ UNCHANGED <<now, tokenVars, issued, latestRt, authSessions, redeemed, exchanged, requests, started, lastStored, appVars>>

\* as Cleared, but the refresh token is kept
ClearedAccessOnly(c) ==
  /\ accessToken' = [accessToken EXCEPT ![c] = Null]
  /\ tokenExpiry' = [tokenExpiry EXCEPT ![c] = Null]
  /\ exchanged' = [exchanged EXCEPT ![c] = Null]
  /\ UNCHANGED refreshToken
\* clearTokens that leaves the expiry behind
ClearedKeepingExpiry(c) ==
  /\ accessToken' = [accessToken EXCEPT ![c] = Null]
  /\ refreshToken' = [refreshToken EXCEPT ![c] = Null]
  /\ exchanged' = [exchanged EXCEPT ![c] = Null]
  /\ UNCHANGED tokenExpiry
\* the assignments of clearTokens
Cleared(c) ==
  /\ accessToken' = [accessToken EXCEPT ![c] = Null]
  /\ refreshToken' = [refreshToken EXCEPT ![c] = Null]
  /\ tokenExpiry' = [tokenExpiry EXCEPT ![c] = Null]
  /\ exchanged' = [exchanged EXCEPT ![c] = Null]

\* clearTokens while other calls are suspended
ClearTokens(c) ==
  /\ Cleared(c)
  /\ UNCHANGED <<now, calls, issued, latestRt, authSessions, redeemed, requests, started, lastStored, appVars>>

\* clearTokens by a caller whose calls are recorded
CallClearTokens(c) ==
  /\ FreeSlots # {}
  /\ Cleared(c)
  /\ calls' = [calls EXCEPT ![NextSlot] =
       [NoCall EXCEPT !.op = "clear", !.client = c, !.pc = "done"]]
  /\ UNCHANGED <<now, issued, latestRt, authSessions, redeemed, requests, started, lastStored, appVars>>

\* the caller takes the result of a completed call
Return(p) ==
  /\ calls[p].pc \in {"done", "failed"}
  /\ calls' = [calls EXCEPT ![p] = NoCall]
  /\ UNCHANGED <<now, tokenVars, issued, latestRt, authSessions, redeemed, exchanged, requests, started, lastStored, appVars>>

Tick ==
  /\ now < StartNow + MaxTicks * TickMs
  /\ now' = now + TickMs
  /\ UNCHANGED <<tokenVars, calls, issued, latestRt, authSessions, redeemed, exchanged, requests, started, lastStored, appVars>>

(***************************************************************************)
(* OAuthCallbackServer                                                     *)
(***************************************************************************)
\* Map.get: undefined (NoSession) when the key is absent
GetSession(state) ==
  IF state \in DOMAIN authSessions THEN authSessions[state] ELSE NoSession

\* as Stored, but the state and the verifier change places in the session
StoredSwapped(state, codeVerifier, oauthClient) ==
  /\ authSessions' = [authSessions EXCEPT ![state] =
       [state |-> codeVerifier, codeVerifier |-> state, oauthClient |-> oauthClient]]
  /\ redeemed' = [redeemed EXCEPT ![state] = FALSE]
  /\ lastStored' = [lastStored EXCEPT ![state] =
       [state |-> state, codeVerifier |-> codeVerifier, oauthClient |-> oauthClient]]
\* as Stored, but a session already stored under the state is kept
StoredKeepFirst(state, codeVerifier, oauthClient) ==
  /\ authSessions' =
       IF authSessions[state] # NoSession THEN authSessions
       ELSE [authSessions EXCEPT ![state] =
               [state |-> state, codeVerifier |-> codeVerifier, oauthClient |-> oauthClient]]
  /\ redeemed' = [redeemed EXCEPT ![state] = FALSE]
  /\ lastStored' = [lastStored EXCEPT ![state] =
       [state |-> state, codeVerifier |-> codeVerifier, oauthClient |-> oauthClient]]
\* this.authSessions.set(state, {state, codeVerifier, oauthClient})
Stored(state, codeVerifier, oauthClient) ==
  /\ authSessions' = [authSessions EXCEPT ![state] =
       [state |-> state, codeVerifier |-> codeVerifier, oauthClient |-> oauthClient]]
  /\ redeemed' = [redeemed EXCEPT ![state] = FALSE]
  /\ lastStored' = [lastStored EXCEPT ![state] =
       [state |-> state, codeVerifier |-> codeVerifier, oauthClient |-> oauthClient]]

\* storeSession while handlers are suspended
StoreSession(state, codeVerifier, oauthClient) ==
  /\ Stored(state, codeVerifier, oauthClient)
  /\ UNCHANGED <<now, tokenVars, calls, issued, latestRt, exchanged, requests, started, appVars>>

\* storeSession and getSession by a caller whose calls are recorded
CallStoreSession(state, codeVerifier, oauthClient) ==
  /\ FreeSlots # {}
  /\ Stored(state, codeVerifier, oauthClient)
  /\ calls' = [calls EXCEPT ![NextSlot] =
       [NoCall EXCEPT !.op = "storeSession", !.pc = "done", !.state = state,
                      !.codeVerifier = codeVerifier, !.client = oauthClient]]
  /\ UNCHANGED <<now, tokenVars, issued, latestRt, exchanged, requests, started, appVars>>

CallGetSession(state) ==
  /\ FreeSlots # {}
  /\ calls' = [calls EXCEPT ![NextSlot] =
       [NoCall EXCEPT !.op = "getSession", !.pc = "done", !.state = state,
                      !.session = GetSession(state)]]
  /\ UNCHANGED <<now, tokenVars, issued, latestRt, authSessions, redeemed, exchanged, requests, started, lastStored, appVars>>

\* the /callback handler up to its first await: the error, code and state
\* checks, the session lookup, and the call of exchangeCodeForTokens
\* A query parameter that is absent and one that is empty are both "": the
\* handler tests them by truthiness.
DeniedNever(error) == FALSE
Denied(error) == error # ""

MalformedNoCode(code, state) == code = ""
Malformed(code, state) == code = "" \/ state = ""

\* as CallbackEnter, with the `return` after the denial page missing: the
\* handler goes on to the lookup and the exchange
CallbackEnterNoReturn(rec) ==
  IF Denied(rec.error) /\ ~Malformed(rec.code, rec.state) /\ GetSession(rec.state) # NoSession
    THEN ExchangeEnter([rec EXCEPT !.err = "denied", !.status = 400, !.responses = @ + 1,
                                   !.client = GetSession(rec.state).oauthClient,
                                   !.codeVerifier = GetSession(rec.state).codeVerifier,
                                   !.expectedState = GetSession(rec.state).state,
                                   !.lookedUp = TRUE])
  ELSE IF Denied(rec.error)
    THEN [rec EXCEPT !.pc = "done", !.err = "denied", !.status = 400, !.responses = @ + 1]
  ELSE IF Malformed(rec.code, rec.state)
    THEN [rec EXCEPT !.pc = "done", !.err = "malformed", !.status = 400, !.responses = @ + 1]
  ELSE IF GetSession(rec.state) = NoSession
    THEN [rec EXCEPT !.pc = "done", !.err = "invalid_session", !.status = 400,
                     !.responses = @ + 1, !.lookedUp = TRUE]
  ELSE ExchangeEnter([rec EXCEPT !.client = GetSession(rec.state).oauthClient,
                                 !.codeVerifier = GetSession(rec.state).codeVerifier,
                                 !.expectedState = GetSession(rec.state).state,
                                 !.lookedUp = TRUE])
CallbackEnter(rec) ==
  IF Denied(rec.error)
    THEN [rec EXCEPT !.pc = "done", !.err = "denied", !.status = 400, !.responses = @ + 1]
  ELSE IF Malformed(rec.code, rec.state)
    THEN [rec EXCEPT !.pc = "done", !.err = "malformed", !.status = 400, !.responses = @ + 1]
  ELSE IF GetSession(rec.state) = NoSession
    THEN [rec EXCEPT !.pc = "done", !.err = "invalid_session", !.status = 400, !.responses = @ + 1,
                     !.lookedUp = TRUE]
  ELSE ExchangeEnter([rec EXCEPT !.client = GetSession(rec.state).oauthClient,
                                 !.codeVerifier = GetSession(rec.state).codeVerifier,
                                 !.expectedState = GetSession(rec.state).state,
                                 !.lookedUp = TRUE])

Callback(code, state, error) ==
  /\ FreeSlots # {}
  /\ calls' = [calls EXCEPT ![NextSlot] =
       CallbackEnter([NoCall EXCEPT !.op = "callback", !.code = code,
                        !.state = state, !.error = error])]
  /\ UNCHANGED <<now, tokenVars, issued, latestRt, authSessions, redeemed, exchanged, requests, started, lastStored, appVars>>

\* the handler resumes after `await exchangeCodeForTokens(...)` returned:
\* authSessions.delete(state), then the 200 page
SessionsAfterExchangeKept(state) == authSessions
SessionsAfterExchange(state) == [authSessions EXCEPT ![state] = NoSession]

CallbackResume(p) ==
  /\ calls[p].pc = "cb_resume"
  /\ authSessions' = SessionsAfterExchange(calls[p].state)
  /\ redeemed' = [redeemed EXCEPT ![calls[p].state] = TRUE]
  /\ calls' = [calls EXCEPT ![p] = [@ EXCEPT !.pc = "done", !.status = 200, !.responses = @ + 1, !.resp = NoResp]]
  /\ UNCHANGED <<now, tokenVars, issued, latestRt, exchanged, requests, started, lastStored, appVars>>

\* as Stop, but the sessions are dropped with the listener
StopForgetsSessions ==
  /\ listening' = FALSE
  /\ authSessions' = [s \in States |-> NoSession]
  /\ UNCHANGED <<now, tokenVars, calls, issued, latestRt, redeemed, exchanged, requests,
                 started, lastStored, entropy, http>>
\* stop(): this.server.close(); the handlers in progress go on
Stop ==
  /\ listening' = FALSE
  /\ UNCHANGED <<now, tokenVars, calls, issued, latestRt, authSessions, redeemed, exchanged,
                 requests, started, lastStored, entropy, http>>

\* start(): nothing when the server listens; else app.listen(3001), which
\* listens, or finds the port in use (EADDRINUSE: resolved all the same)
Start(portFree) ==
  /\ listening' = (listening \/ portFree)
  /\ UNCHANGED <<now, tokenVars, calls, issued, latestRt, authSessions, redeemed, exchanged,
                 requests, started, lastStored, entropy, http>>

InitWith(n) ==
  /\ now = StartNow
  /\ accessToken = [c \in Clients |-> Null]
  /\ refreshToken = [c \in Clients |-> Null]
  /\ tokenExpiry = [c \in Clients |-> Null]
  /\ calls = [i \in 1..n |-> NoCall]
  /\ issued = 0
  /\ latestRt = [c \in Clients |-> Null]
  /\ authSessions = [s \in States |-> NoSession]
  /\ redeemed = [s \in States |-> FALSE]
  /\ exchanged = [c \in Clients |-> Null]
  /\ requests = <<>>
  /\ started = {}
  /\ lastStored = [s \in States |-> NoSession]
  /\ entropy = 0
  /\ listening = TRUE
  /\ http = NoHttp

Init == InitWith(MaxCalls)

\* one OAuthClient instance, its callers and the authorization server
Next ==
  \/ \E e \in States : CallExchange("A", "c1", "v1", "s1", e)
  \/ CallRefresh("A")
  \/ CallGetValid("A")
  \/ \E p \in CallIds, ok \in BOOLEAN : MetadataResponse(p, ok)
  \/ \E p \in CallIds : \E r \in OkResps(issued + 1) \cup {ErrResp} : ServerToken(p, r)
  \/ \E p \in CallIds : ExchangeResponse(p)
  \/ \E p \in CallIds : RefreshResponse(p)
  \/ \E p \in CallIds : GetValidResume(p)
  \/ \E p \in CallIds : Return(p)
  \/ CallHasValidToken("A")
  \/ ClearTokens("A")
  \/ Tick

Spec == Init /\ [][Next]_vars

\* the same client with a caller that awaits each call before it makes the next
NextSerial ==
  \/ InFlight = {} /\ \E e \in States : CallExchange("A", "c1", "v1", "s1", e)
  \/ InFlight = {} /\ CallRefresh("A")
  \/ InFlight = {} /\ CallGetValid("A")
  \/ \E p \in CallIds, ok \in BOOLEAN : MetadataResponse(p, ok)
  \/ \E p \in CallIds : \E r \in OkResps(issued + 1) \cup {ErrResp} : ServerToken(p, r)
  \/ \E p \in CallIds : ExchangeResponse(p)
  \/ \E p \in CallIds : RefreshResponse(p)
  \/ \E p \in CallIds : GetValidResume(p)
  \/ \E p \in CallIds : Return(p)
  \/ InFlight = {} /\ CallHasValidToken("A")
  \/ InFlight = {} /\ ClearTokens("A")
  \/ Tick

SpecSerial == Init /\ [][NextSerial]_vars

\* an authenticated OAuthClient (the state after a successful exchange whose
\* response carried a refresh token and expires_in) and callers that do not wait
\* for one another
InitRefresh ==
  /\ now = StartNow
  /\ accessToken = [c \in Clients |-> IF c = "A" THEN PriorToken ELSE Null]
  /\ refreshToken = [c \in Clients |-> IF c = "A" THEN PriorToken ELSE Null]
  /\ tokenExpiry = [c \in Clients |-> IF c = "A" THEN StartNow + 60 * 1000 ELSE Null]
  /\ calls = [i \in 1..(MaxCalls + 1) |-> NoCall]
  /\ issued = 0
  /\ latestRt = [c \in Clients |-> IF c = "A" THEN PriorToken ELSE Null]
  /\ authSessions = [s \in States |-> NoSession]
  /\ redeemed = [s \in States |-> FALSE]
  /\ exchanged = [c \in Clients |-> IF c = "A" THEN PriorToken ELSE Null]
  /\ requests = <<>>
  /\ started = {}
  /\ lastStored = [s \in States |-> NoSession]
  /\ entropy = 0
  /\ listening = TRUE
  /\ http = NoHttp
NextRefresh ==
  \/ CallRefresh("A")
  \/ CallGetValid("A")
  \/ \E p \in CallIds, ok \in BOOLEAN : MetadataResponse(p, ok)
  \/ \E p \in CallIds : \E r \in OkResps(issued + 1) \cup {ErrResp} : ServerToken(p, r)
  \/ \E p \in CallIds : RefreshResponse(p)
  \/ \E p \in CallIds : GetValidResume(p)
  \/ \E p \in CallIds : Return(p)
  \/ Tick

SpecRefresh == InitRefresh /\ [][NextRefresh]_vars

\* the callback server, the OAuthClient instances its sessions name, the
\* browser redirects that reach /callback and the authorization server
NextCallback ==
  \/ \E f \in Flows : StoreSession(f.state, f.codeVerifier, f.oauthClient)
  \/ \E code \in {"", "c1"}, s \in {""} \cup States, e \in {"", "access_denied"} :
       Callback(code, s, e)
  \/ \E p \in CallIds, ok \in BOOLEAN : MetadataResponse(p, ok)
  \/ \E p \in CallIds : \E r \in {x \in OkResps(issued + 1) : x.exp # 0} \cup {ErrResp} : ServerToken(p, r)
  \/ \E p \in CallIds : ExchangeResponse(p)
  \/ \E p \in CallIds : CallbackResume(p)
  \/ \E p \in CallIds : Return(p)

SpecCallback == Init /\ [][NextCallback]_vars

\* the same with redirects that are handled while another is suspended
SpecCallbackRace == InitWith(MaxCalls + 1) /\ [][NextCallback]_vars

\* one OAuthClient whose exchanges and refreshes overlap at their awaits,
\* and clearTokens called between their steps
NextTokens ==
  \/ CallExchange("A", "c1", "v1", "s1", "s1")
  \/ CallRefresh("A")
  \/ ClearTokens("A")
  \/ \E p \in CallIds, ok \in BOOLEAN : MetadataResponse(p, ok)
  \/ \E p \in CallIds : \E r \in {x \in OkResps(issued + 1) : x.exp # 0} \cup {ErrResp} : ServerToken(p, r)
  \/ \E p \in CallIds : ExchangeResponse(p)
  \/ \E p \in CallIds : RefreshResponse(p)
  \/ \E p \in CallIds : Return(p)

SpecTokens == InitWith(MaxCalls + 1) /\ [][NextTokens]_vars

\* the application stores the session of an authorization it started: the
\* state and verifier that startAuthorization returned, and the client instance
StoreStarted(p) ==
  /\ calls[p].op = "start"
  /\ calls[p].pc = "done"
  /\ StoreSession(calls[p].state, calls[p].codeVerifier, calls[p].client)

\* lifetimes around the refresh skew
FlowExpiresIn == {Null, 20, 30}
FlowResps(n) == {r \in [st : {"ok"}, at : {n}, rt : {Null, n}, exp : FlowExpiresIn] : TRUE}

\* no call is in progress and every result has been taken
Idle == \A i \in CallIds : calls[i].op = "none"

\* the whole authorization flow at one instant, one step after the other:
\* startAuthorization, storeSession, the redirect to /callback, and the use of
\* the tokens, for two client instances with different configurations
NextFlow ==
  \/ Idle /\ \E c \in Clients : CallStart(c)
  \/ \E p \in CallIds, ok \in BOOLEAN : \E f \in Flows :
       f.oauthClient = calls[p].client /\ StartResume(p, ok, f.state, f.codeVerifier)
  \/ \E p \in CallIds : StoreStarted(p)
  \/ Idle /\ \E s \in States : Callback("c1", s, "")
  \/ \E p \in CallIds, ok \in BOOLEAN : MetadataResponse(p, ok)
  \/ \E p \in CallIds : \E r \in FlowResps(issued + 1) \cup {ErrResp} : ServerToken(p, r)
  \/ \E p \in CallIds : ExchangeResponse(p)
  \/ \E p \in CallIds : CallbackResume(p)
  \/ Idle /\ \E c \in Clients : CallHasValidToken(c)
  \/ Idle /\ \E c \in Clients : CallGetValid(c)
  \/ Idle /\ \E c \in Clients : CallRefresh(c)
  \/ \E p \in CallIds : RefreshResponse(p)
  \/ \E p \in CallIds : GetValidResume(p)
  \/ \E p \in CallIds : Return(p)

SpecFlow == InitWith(MaxCalls) /\ [][NextFlow]_vars

\* the client application as the repository has it: SimpleMCPClient.initializeAuth
\* and the calls of test-oauth-debug (registerClient, startAuthorization, an
\* exchange of made-up values, hasValidToken, refreshAccessToken, clearTokens),
\* each awaited before the next, against an authorization server whose metadata
\* document may lack endpoints
NextAgent ==
  \/ Idle /\ CallInitializeAuth("A")
  \/ Idle /\ CallRegister("A")
  \/ Idle /\ CallGetMetadata("A")
  \/ Idle /\ CallStart("A")
  \/ Idle /\ CallExchange("A", "demo_code", "demo_verifier", "demo_state", "demo_state")
  \/ Idle /\ CallHasValidToken("A")
  \/ Idle /\ CallGetValid("A")
  \/ Idle /\ CallRefresh("A")
  \/ Idle /\ CallClearTokens("A")
  \/ \E p \in CallIds, ok \in BOOLEAN, md \in MetadataDocs : RegisterMetadata(p, ok, md)
  \/ \E p \in CallIds, ok \in BOOLEAN : RegisterResponse(p, ok)
  \/ \E p \in CallIds, ok \in BOOLEAN, md \in MetadataDocs : GetMetadataAnswered(p, ok, md)
  \/ \E p \in CallIds, ok \in BOOLEAN, md \in MetadataDocs : \E f \in Flows :
       f.oauthClient = calls[p].client /\ StartAnswered(p, ok, md, f.state, f.codeVerifier)
  \/ \E p \in CallIds, ok \in BOOLEAN, md \in MetadataDocs : MetadataAnswered(p, ok, md)
  \/ \E p \in CallIds : \E r \in FlowResps(issued + 1) \cup {ErrResp} : ServerToken(p, r)
  \/ \E p \in CallIds : ExchangeResponse(p)
  \/ \E p \in CallIds : RefreshResponse(p)
  \/ \E p \in CallIds : GetValidResume(p)
  \/ \E p \in CallIds : Return(p)

SpecAgent == InitWith(MaxCalls) /\ [][NextAgent]_vars

\* the session map through its two methods, as test-callback-integration uses
\* them: stores under colliding states, lookups of stored and of unknown states
Verifiers == {"v1", "v2"}
NextSessions ==
  \/ Idle /\ \E s \in States, v \in Verifiers, c \in Clients : CallStoreSession(s, v, c)
  \/ Idle /\ \E s \in States \cup {"non_existent_state"} : CallGetSession(s)
  \/ \E p \in CallIds : Return(p)

SpecSessions == InitWith(MaxCalls) /\ [][NextSessions]_vars

\* the callback server over its life: sessions stored, redirects that carry a
\* code or an error, for stored and other states, while it listens; stop() and
\* start(); and the token operations of the client instances (an exchange
\* called directly among them), one step after the other
CallbackCodes == {"", "c1"}
CallbackErrors == {"", "access_denied"}
NextServer ==
  \/ Idle /\ \E f \in Flows : StoreSession(f.state, f.codeVerifier, f.oauthClient)
  \/ Idle /\ listening
          /\ \E code \in CallbackCodes, s \in States, error \in CallbackErrors :
               Callback(code, s, error)
  \/ Idle /\ \E f \in Flows :
               CallExchange(f.oauthClient, "c1", f.codeVerifier, f.state, f.state)
  \/ Stop
  \/ \E portFree \in BOOLEAN : Start(portFree)
  \/ \E p \in CallIds, ok \in BOOLEAN : MetadataResponse(p, ok)
  \/ \E p \in CallIds : \E r \in FlowResps(issued + 1) \cup {ErrResp} : ServerToken(p, r)
  \/ \E p \in CallIds : ExchangeResponse(p)
  \/ \E p \in CallIds : CallbackResume(p)
  \/ Idle /\ \E c \in Clients : CallRefresh(c)
  \/ \E p \in CallIds : RefreshResponse(p)
  \/ Idle /\ \E c \in Clients : CallClearTokens(c)
  \/ \E p \in CallIds : Return(p)

SpecServer == InitWith(MaxCalls) /\ [][NextServer]_vars

\* what a callback suspended in slot p waits for: the metadata answer, the
\* token answer, the resumption of exchangeCodeForTokens and of the handler
CallbackProgress(p) ==
  \/ \E ok \in BOOLEAN : MetadataResponse(p, ok)
  \/ \E r \in {x \in FlowResps(issued + 1) : x.rt # Null /\ x.exp = 30} \cup {ErrResp} :
       ServerToken(p, r)
  \/ ExchangeResponse(p)
  \/ CallbackResume(p)

\* the redirects that arrive: the codes of both flows, a redirect without a
\* code and a denial
CallbackQueries == {[code |-> "c1", state |-> "s1", error |-> ""],
                    [code |-> "c1", state |-> "s2", error |-> ""],
                    [code |-> "", state |-> "s1", error |-> ""],
                    [code |-> "c1", state |-> "s1", error |-> "access_denied"]}

\* the callback server with redirects and storeSession calls arriving while
\* earlier redirects are suspended in their exchange; every redirect keeps its
\* slot, so a behaviour has as many redirects as there are slots
NextCallbackFair ==
  \/ \E f \in Flows : StoreSession(f.state, f.codeVerifier, f.oauthClient)
  \/ \E q \in CallbackQueries : Callback(q.code, q.state, q.error)
  \/ \E p \in CallIds : CallbackProgress(p)

\* every network call that was sent is answered, and every continuation runs
SpecCallbackFair ==
  /\ InitWith(MaxCalls + 1)
  /\ [][NextCallbackFair]_vars
  /\ \A p \in 1..(MaxCalls + 1) : WF_vars(CallbackProgress(p))

(***************************************************************************)
(* SimpleMCPClient.sendHTTPRequest (client.ts).  `http` is the call in      *)
(* progress; the OAuthClient methods it awaits run as a record of `calls`.  *)
(***************************************************************************)
\* the answers of the MCP server to a POST /mcp: a status, and for 2xx a JSON-RPC
\* body that holds a result or an error
HttpAnswers == {[status |-> 200, body |-> "result"], [status |-> 200, body |-> "error"],
                [status |-> 401, body |-> ""], [status |-> 403, body |-> ""],
                [status |-> 500, body |-> "error"]}
\* response.ok
ResponseOk(status) == status >= 200 /\ status < 300

\* the unused parts of the state in the steps of sendHTTPRequest
httpFrame == <<now, issued, latestRt, authSessions, redeemed, exchanged, requests, started,
               lastStored, entropy, listening>>

\* sendHTTPRequest up to `await this.oauthClient.getValidAccessToken()`
SendHTTPRequest(c) ==
  /\ http.pc = "idle"
  /\ FreeSlots # {}
  /\ calls' = [calls EXCEPT ![NextSlot] = GetValidEnter([NoCall EXCEPT !.op = "gva", !.client = c])]
  /\ http' = [NoHttp EXCEPT !.pc = "token", !.client = c, !.call = NextSlot]
  /\ UNCHANGED <<httpFrame, tokenVars>>

\* the POST to `${serverUrl}/mcp` with `Authorization: Bearer ${token}`
HttpPost(h, token, pc) ==
  [h EXCEPT !.pc = pc, !.posts = @ + 1, !.sent = Append(@, token)]

\* a rejected await leaves sendHTTPRequest
HttpThrow(h, e) == [h EXCEPT !.pc = "failed", !.outcome = e]

\* response.ok, the body is parsed: mcpResponse.error throws, else the result
HttpBody(h, body) ==
  IF body = "error" THEN HttpThrow(h, "mcp_error")
                    ELSE [h EXCEPT !.pc = "done", !.outcome = "result"]

\* getValidAccessToken has returned or thrown: the first POST is sent
HttpTokenReturned ==
  /\ http.pc = "token"
  /\ calls[http.call].pc \in {"done", "failed"}
  /\ http' = IF calls[http.call].pc = "failed"
               THEN HttpThrow(http, calls[http.call].err)
               ELSE HttpPost(http, calls[http.call].result, "post")
  /\ calls' = [calls EXCEPT ![http.call] = NoCall]
  /\ UNCHANGED <<httpFrame, tokenVars>>

\* as the retry of HttpResponse, but a 401 to any POST starts a refresh
HttpRetryOn401(h, answer) ==
  h.pc \in {"post", "retry"} /\ answer.status = 401
\* `if (response.status === 401)` is looked at for the first POST only
HttpRefreshOn401(h, answer) ==
  h.pc = "post" /\ answer.status = 401

\* the first POST, or the retry, is answered
HttpResponse(answer) ==
  /\ http.pc \in {"post", "retry"}
  /\ IF HttpRefreshOn401(http, answer)
       THEN /\ calls' = [calls EXCEPT ![http.call] =
                 RefreshEnter([NoCall EXCEPT !.op = "refresh", !.client = http.client])]
            /\ http' = [http EXCEPT !.pc = "refresh", !.status = answer.status,
                                    !.refreshes = @ + 1]
       ELSE /\ http' = IF ~ResponseOk(answer.status)
                         THEN HttpThrow([http EXCEPT !.status = answer.status], "http_error")
                         ELSE HttpBody([http EXCEPT !.status = answer.status], answer.body)
            /\ UNCHANGED calls
  /\ UNCHANGED <<httpFrame, tokenVars>>

\* refreshAccessToken has returned or thrown: getValidAccessToken is called
HttpRefreshReturned ==
  /\ http.pc = "refresh"
  /\ calls[http.call].pc \in {"done", "failed"}
  /\ IF calls[http.call].pc = "failed"
       THEN /\ http' = HttpThrow(http, calls[http.call].err)
            /\ calls' = [calls EXCEPT ![http.call] = NoCall]
       ELSE /\ http' = [http EXCEPT !.pc = "token2"]
            /\ calls' = [calls EXCEPT ![http.call] =
                 GetValidEnter([NoCall EXCEPT !.op = "gva", !.client = http.client])]
  /\ UNCHANGED <<httpFrame, tokenVars>>

\* getValidAccessToken has returned newToken or thrown: the retry POST is sent
HttpNewTokenReturned ==
  /\ http.pc = "token2"
  /\ calls[http.call].pc \in {"done", "failed"}
  /\ http' = IF calls[http.call].pc = "failed"
               THEN HttpThrow(http, calls[http.call].err)
               ELSE HttpPost(http, calls[http.call].result, "retry")
  /\ calls' = [calls EXCEPT ![http.call] = NoCall]
  /\ UNCHANGED <<httpFrame, tokenVars>>

\* the caller of sendHTTPRequest takes the result or the error
HttpReturn ==
  /\ http.pc \in {"done", "failed"}
  /\ http' = NoHttp
  /\ UNCHANGED <<httpFrame, tokenVars, calls>>

\* an authenticated client (as InitRefresh) whose application awaits each call
InitHttp ==
  /\ now = StartNow
  /\ accessToken = [c \in Clients |-> IF c = "A" THEN PriorToken ELSE Null]
  /\ refreshToken = [c \in Clients |-> IF c = "A" THEN PriorToken ELSE Null]
  /\ tokenExpiry = [c \in Clients |-> IF c = "A" THEN StartNow + 60 * 1000 ELSE Null]
  /\ calls = [i \in 1..MaxCalls |-> NoCall]
  /\ issued = 0
  /\ latestRt = [c \in Clients |-> IF c = "A" THEN PriorToken ELSE Null]
  /\ authSessions = [s \in States |-> NoSession]
  /\ redeemed = [s \in States |-> FALSE]
  /\ exchanged = [c \in Clients |-> IF c = "A" THEN PriorToken ELSE Null]
  /\ requests = <<>>
  /\ started = {}
  /\ lastStored = [s \in States |-> NoSession]
  /\ entropy = 0
  /\ listening = TRUE
  /\ http = NoHttp

\* the steps that answer a call in progress
HttpProgress ==
  \/ HttpTokenReturned
  \/ \E answer \in HttpAnswers : HttpResponse(answer)
  \/ HttpRefreshReturned
  \/ HttpNewTokenReturned
  \/ \E p \in CallIds, ok \in BOOLEAN : MetadataResponse(p, ok)
  \/ \E p \in CallIds : \E r \in FlowResps(issued + 1) \cup {ErrResp} : ServerToken(p, r)
  \/ \E p \in CallIds : RefreshResponse(p)
  \/ \E p \in CallIds : GetValidResume(p)

\* the application: sendHTTPRequest, one call after the other, with clearTokens
\* and the passing of time between calls
NextHttp ==
  \/ Idle /\ SendHTTPRequest("A")
  \/ HttpProgress
  \/ HttpReturn
  \/ Idle /\ http.pc = "idle" /\ ClearTokens("A")
  \/ Idle /\ http.pc = "idle" /\ Tick

SpecHttp == InitHttp /\ [][NextHttp]_vars

\* every call that was made is answered: the network calls complete
SpecHttpFair == SpecHttp /\ WF_vars(HttpProgress)

\* PKCE and state generation: startAuthorization by two client instances and
\* the generators called by themselves, all drawing from the one random source
MaxDraws == 4
NextPkce ==
  \/ Idle /\ entropy + 2 <= MaxDraws /\ \E c \in Clients : CallStart(c)
  \/ \E p \in CallIds, ok \in BOOLEAN, md \in MetadataDocs : StartAuthorization(p, ok, md)
  \/ Idle /\ entropy < MaxDraws /\ \E c \in Clients : CallGeneratePKCE(c)
  \/ Idle /\ entropy < MaxDraws /\ \E c \in Clients : CallGenerateState(c)
  \/ \E p \in CallIds : Return(p)

SpecPkce == InitWith(MaxCalls) /\ [][NextPkce]_vars

(***************************************************************************)
(* The resource server: HTTPStreamTransport with its TokenValidator         *)
(* (server.ts).  It keeps no state between requests; `requests` holds the   *)
(* requests being handled and their answers.                               *)
(***************************************************************************)
oauthVars == <<now, tokenVars, calls, issued, latestRt, authSessions, redeemed, exchanged, started,
               lastStored, appVars>>

ReqIds == DOMAIN requests

MinTokenLength == 10

\* header values and tokens are sequences of characters
BearerPrefix == <<"B", "e", "a", "r", "e", "r", " ">>
LongToken == <<"t", "o", "k", "e", "n", "-", "0", "1", "2", "3">>
ShortToken == <<"t", "o", "k", "e", "n", "-", "0", "1", "2">>
NoHeader == <<>>
Headers == {NoHeader,
            <<"B", "a", "s", "i", "c", " ", "x">>,
            <<"B", "e", "a", "r", "e", "r">>,
            <<"b", "e", "a", "r", "e", "r", " ">> \o LongToken,
            BearerPrefix \o ShortToken,
            BearerPrefix \o LongToken}

MCP_METHODS == {"tools/list", "tools/call", "resources/list", "resources/read", "server/info"}
\* the methods the switch awaits; server/info is answered without an await
AwaitedMethods == MCP_METHODS \ {"server/info"}

\* JSON-RPC requests: id 0 and an empty method are falsy
Bodies == [jsonrpc : {"2.0"}, id : {1}, method : MCP_METHODS \cup {"unknown/method"}]
            \cup {[jsonrpc |-> "1.0", id |-> 1, method |-> "tools/list"],
                  [jsonrpc |-> "2.0", id |-> 0, method |-> "tools/call"],
                  [jsonrpc |-> "2.0", id |-> 1, method |-> ""]}
NoBody == [jsonrpc |-> "", id |-> 0, method |-> ""]
\* a body (or a WebSocket frame) that JSON.parse rejects
Unparsable == [jsonrpc |-> "not json", id |-> 0, method |-> ""]

OtherResource == <<"http", ":", "/", "/", "other", ":", "3000">>

NoVerdict == [valid |-> FALSE, audience |-> <<>>, threw |-> FALSE]
NoChallenge == [scheme |-> "", realm |-> <<>>, resource |-> <<>>]
\* WWW-Authenticate: Bearer realm="<MCP_SERVER_URI>", resource="<MCP_SERVER_URI>"
WwwAuthenticate == [scheme |-> "Bearer", realm |-> MCP_SERVER_URI, resource |-> MCP_SERVER_URI]

NoReq == [transport |-> "none", pc |-> "idle", authorization |-> NoHeader, body |-> NoBody,
          token |-> <<>>, validated |-> FALSE, inner |-> "", verdict |-> NoVerdict,
          dispatched |-> "", status |-> 0, error |-> "", rpcError |-> "",
          hasResult |-> FALSE, wwwAuthenticate |-> NoChallenge,
          responses |-> 0, responseJsonrpc |-> "", responseId |-> Null]

FreeReqs == {i \in ReqIds : requests[i].transport = "none"}
NextReq == CHOOSE i \in FreeReqs : \A j \in FreeReqs : i <= j

\* what happens inside validateToken after the length check: the placeholder of
\* the repository accepts ("accept"); a verifier put in its place may find
\* another audience in the token or throw
VerifierOutcomes == {"accept", "other_audience", "throws"}

\* as ValidateToken, without the try/catch around the body
ValidateTokenUncaught(token, inner) ==
  IF Len(token) = 0 \/ Len(token) < MinTokenLength
    THEN [valid |-> FALSE, audience |-> <<>>, threw |-> FALSE]
  ELSE IF inner = "throws"
    THEN [valid |-> FALSE, audience |-> <<>>, threw |-> TRUE]
  ELSE [valid |-> TRUE,
        audience |-> IF inner = "other_audience" THEN OtherResource ELSE MCP_SERVER_URI,
        threw |-> FALSE]

\* TokenValidator.validateToken
ValidateToken(token, inner) ==
  IF Len(token) = 0 \/ Len(token) < MinTokenLength
    THEN [valid |-> FALSE, audience |-> <<>>, threw |-> FALSE]
  ELSE IF inner = "throws"
    THEN [valid |-> FALSE, audience |-> <<>>, threw |-> FALSE]
  ELSE [valid |-> TRUE,
        audience |-> IF inner = "other_audience" THEN OtherResource ELSE MCP_SERVER_URI,
        threw |-> FALSE]

StartsWith(s, prefix) ==
  Len(s) >= Len(prefix) /\ SubSeq(s, 1, Len(prefix)) = prefix

BearerHeaderAnyScheme(h) == h # NoHeader
\* authHeader && authHeader.startsWith('Bearer ')
BearerHeader(h) == h # NoHeader /\ StartsWith(h, BearerPrefix)

\* authHeader.substring(7)
Substring7(h) == SubSeq(h, 8, Len(h))

AudienceMismatchNever(verdict) == FALSE
AudienceMismatch(verdict) == verdict.audience # MCP_SERVER_URI

\* a request of the type MCPRequest: jsonrpc '2.0', an id that is a string or a
\* number (0 is one), a method name
WellFormedRequest(body) == body.jsonrpc = "2.0" /\ body.id \in Nat /\ body.method # ""

\* mcpRequest.jsonrpc !== '2.0' || !mcpRequest.id || !mcpRequest.method
InvalidRequest(body) == body.jsonrpc # "2.0" \/ body.id = 0 \/ body.method = ""

MCP_ERROR_CODES == [PARSE_ERROR |-> -32700, INVALID_REQUEST |-> -32600,
                    METHOD_NOT_FOUND |-> -32601, INVALID_PARAMS |-> -32602,
                    INTERNAL_ERROR |-> -32603]

\* `mcpRequest.id || null`
IdOrNull(id) == IF Truthy(id) THEN id ELSE Null

\* an MCPResponse {jsonrpc: '2.0', id, ...} is written (res.json, res.write
\* with res.end, ws.send); the OAuth error bodies of 401 and 403 are not JSON-RPC
JsonRpcResponse(rec, id) ==
  [rec EXCEPT !.responses = @ + 1, !.responseJsonrpc = "2.0", !.responseId = id]
OAuthErrorResponse(rec) == [rec EXCEPT !.responses = @ + 1]

\* the switch on mcpRequest.method, shared by both transports: an awaited
\* method suspends the handler, server/info and an unknown method are answered
\* in the same step
Dispatch(rec) ==
  IF rec.body.method \in AwaitedMethods
    THEN [rec EXCEPT !.pc = "dispatching", !.dispatched = rec.body.method]
  ELSE IF rec.body.method \in MCP_METHODS
    THEN JsonRpcResponse(
           [rec EXCEPT !.pc = "responded", !.dispatched = rec.body.method,
                       !.status = IF rec.transport = "http" THEN 200 ELSE 0,
                       !.hasResult = TRUE], rec.body.id)
  ELSE JsonRpcResponse(
         [rec EXCEPT !.pc = "responded", !.rpcError = "METHOD_NOT_FOUND",
                     !.status = IF rec.transport = "http" THEN 200 ELSE 0], rec.body.id)

\* app.use(express.json()) runs before the route handler: a body that is not
\* JSON ends the request there, and the default error handler answers 400
BodyParserRejects(body) == body = Unparsable

\* POST /mcp up to `await this.tokenValidator.validateToken(token)`
McpEnter(rec) ==
  IF BodyParserRejects(rec.body)
    THEN [rec EXCEPT !.pc = "responded", !.status = 400, !.error = "entity.parse.failed",
                     !.responses = @ + 1]
  ELSE IF ~BearerHeader(rec.authorization)
    THEN OAuthErrorResponse(
           [rec EXCEPT !.pc = "responded", !.status = 401, !.error = "unauthorized",
                       !.wwwAuthenticate = WwwAuthenticate])
    ELSE [rec EXCEPT !.pc = "validating", !.token = Substring7(rec.authorization),
                     !.validated = TRUE]

McpRequest(h, b) ==
  /\ FreeReqs # {}
  /\ requests' = [requests EXCEPT ![NextReq] =
       McpEnter([NoReq EXCEPT !.transport = "http", !.authorization = h, !.body = b])]
  /\ UNCHANGED oauthVars

\* POST /mcp from the verdict of the validator to the switch
McpVerdict(rec, verdict) ==
  IF verdict.threw
    THEN JsonRpcResponse(
           [rec EXCEPT !.pc = "responded", !.verdict = verdict, !.status = 500,
                       !.rpcError = "PARSE_ERROR"], IdOrNull(rec.body.id))
  ELSE IF ~verdict.valid
    THEN OAuthErrorResponse(
           [rec EXCEPT !.pc = "responded", !.verdict = verdict, !.status = 401,
                       !.error = "invalid_token", !.wwwAuthenticate = WwwAuthenticate])
  ELSE IF AudienceMismatch(verdict)
    THEN OAuthErrorResponse(
           [rec EXCEPT !.pc = "responded", !.verdict = verdict, !.status = 403,
                       !.error = "insufficient_scope"])
  ELSE IF InvalidRequest(rec.body)
    THEN JsonRpcResponse(
           [rec EXCEPT !.pc = "responded", !.verdict = verdict, !.status = 400,
                       !.rpcError = "INVALID_REQUEST"], IdOrNull(rec.body.id))
  ELSE Dispatch([rec EXCEPT !.verdict = verdict])

McpValidated(p, inner) ==
  /\ requests[p].pc = "validating"
  /\ requests' = [requests EXCEPT ![p] =
       McpVerdict([@ EXCEPT !.inner = inner], ValidateToken(@.token, inner))]
  /\ UNCHANGED oauthVars

\* a WebSocket message: JSON.parse, the JSON-RPC check, the switch
WsEnter(rec) ==
  IF rec.body = Unparsable
    THEN JsonRpcResponse([rec EXCEPT !.pc = "responded", !.rpcError = "PARSE_ERROR"], Null)
  ELSE IF InvalidRequest(rec.body)
    THEN JsonRpcResponse([rec EXCEPT !.pc = "responded", !.rpcError = "INVALID_REQUEST"],
                         IdOrNull(rec.body.id))
  ELSE Dispatch(rec)

WsMessage(b) ==
  /\ FreeReqs # {}
  /\ requests' = [requests EXCEPT ![NextReq] =
       WsEnter([NoReq EXCEPT !.transport = "ws", !.body = b])]
  /\ UNCHANGED oauthVars

\* the awaited MCP method returns or throws; the response is written
MethodReturned(p, ok) ==
  /\ requests[p].pc = "dispatching"
  /\ requests' = [requests EXCEPT ![p] =
       JsonRpcResponse(
         [@ EXCEPT !.pc = "responded",
                   !.status = IF requests[p].transport = "http" THEN 200 ELSE 0,
                   !.hasResult = ok,
                   !.rpcError = IF ok THEN "" ELSE "INTERNAL_ERROR"],
         requests[p].body.id)]
  /\ UNCHANGED oauthVars

\* the response has left; the request is forgotten
Responded(p) ==
  /\ requests[p].pc = "responded"
  /\ requests' = [requests EXCEPT ![p] = NoReq]
  /\ UNCHANGED oauthVars

InitResource ==
  /\ now = StartNow
  /\ accessToken = [c \in Clients |-> Null]
  /\ refreshToken = [c \in Clients |-> Null]
  /\ tokenExpiry = [c \in Clients |-> Null]
  /\ calls = <<>>
  /\ issued = 0
  /\ latestRt = [c \in Clients |-> Null]
  /\ authSessions = [s \in States |-> NoSession]
  /\ redeemed = [s \in States |-> FALSE]
  /\ exchanged = [c \in Clients |-> Null]
  /\ requests = [i \in 1..MaxCalls |-> NoReq]
  /\ started = {}
  /\ lastStored = [s \in States |-> NoSession]
  /\ entropy = 0
  /\ listening = TRUE
  /\ http = NoHttp

NextResource ==
  \/ \E h \in Headers, b \in Bodies \cup {Unparsable} : McpRequest(h, b)
  \/ \E p \in ReqIds, inner \in VerifierOutcomes : McpValidated(p, inner)
  \/ \E b \in Bodies \cup {Unparsable} : WsMessage(b)
  \/ \E p \in ReqIds, ok \in BOOLEAN : MethodReturned(p, ok)
  \/ \E p \in ReqIds : Responded(p)

SpecResource == InitResource /\ [][NextResource]_vars

(***************************************************************************)
(* The claims.                                                             *)
(***************************************************************************)
Started(p, op) == calls[p].op = "none" /\ calls'[p].op = op

\* C1: a call exchangeCodeForTokens(code, verifier, receivedState, expectedState)
\* with receivedState # expectedState fails with the state-mismatch error in the
\* step that makes the call: it issues no metadata GET and no token POST, and the
\* stored accessToken, refreshToken and tokenExpiry are unchanged.
C1_CsrfBeforeNetwork ==
  [][\A p \in CallIds :
       (Started(p, "exchange") /\ calls'[p].state # calls'[p].expectedState)
         => /\ calls'[p].pc = "failed"
            /\ calls'[p].err = "csrf"
            /\ calls'[p].gets = 0
            /\ calls'[p].posts = 0
            /\ NetPending' = NetPending
            /\ UNCHANGED tokenVars]_vars

C1_Witness ==
  \E p \in CallIds :
    /\ calls[p].op = "exchange"
    /\ calls[p].state # calls[p].expectedState
    /\ calls[p].pc = "failed"
    /\ calls[p].err = "csrf"
    /\ Truthy(accessToken[calls[p].client])

\* C2: of the /callback deliveries that carry the same state, at most one at a
\* time has found the session and is in its token exchange (the others were
\* answered Invalid Session).
C2_SingleObserver ==
  \A s \in States :
    Cardinality({p \in CallIds : /\ calls[p].op = "callback"
                                 /\ calls[p].state = s
                                 /\ calls[p].pc \in {"x_meta", "x_post", "cb_resume"}}) <= 1

\* C3: when a /callback that found the session of its state is answered (200 or
\* 500), no session is stored under that state any more.
C3_SessionDeletedOnAnyOutcome ==
  [][\A p \in CallIds :
       (/\ calls[p].op = "callback"
        /\ calls[p].pc \in {"x_meta", "x_post", "cb_resume"}
        /\ calls'[p].pc = "done")
         => authSessions'[calls[p].state] = NoSession]_vars

RedeemedIsGone == \A s \in States : redeemed[s] => authSessions[s] = NoSession

\* C4: once a /callback for state S was answered 200 and no storeSession(S, ..)
\* followed, no session is stored under S, and every /callback(code, S) made from
\* then on is answered 400 Invalid Session in the step that handles it, with no
\* metadata GET, no token POST and no change of any client's tokens.
C4_SessionSingleUse ==
  [][/\ RedeemedIsGone
     /\ RedeemedIsGone'
     /\ \A p \in CallIds :
          (/\ Started(p, "callback")
           /\ calls'[p].error = ""
           /\ calls'[p].code # ""
           /\ calls'[p].state \in States
           /\ redeemed[calls'[p].state])
            => /\ calls'[p].pc = "done"
               /\ calls'[p].status = 400
               /\ calls'[p].err = "invalid_session"
               /\ calls'[p].gets = 0
               /\ calls'[p].posts = 0
               /\ NetPending' = NetPending
               /\ UNCHANGED tokenVars]_vars

C4_Witness ==
  \E p \in CallIds :
    /\ calls[p].op = "callback"
    /\ calls[p].pc = "done"
    /\ calls[p].err = "invalid_session"
    /\ calls[p].state \in States
    /\ redeemed[calls[p].state]
    /\ Truthy(accessToken["A"])

\* C5: once every refreshAccessToken / getValidAccessToken call has completed,
\* the refresh token the client stores is the one the server issued last.
C5_LatestRefreshTokenKept ==
  InFlight = {} => refreshToken["A"] = latestRt["A"]

\* C6: no step of a refreshAccessToken call other than its handling of a 2xx
\* token response changes accessToken, refreshToken or tokenExpiry; in particular
\* the step in which the call fails (no refresh token, metadata failure, non-2xx
\* token response) leaves them as they were.
C6_RefreshFailureKeepsTokens ==
  [][\A p \in CallIds :
       (/\ calls'[p] # calls[p]
        /\ calls'[p].op \in {"refresh", "gva"}
        /\ calls'[p].pc \in {"failed", "r_meta", "r_post"})
         => UNCHANGED tokenVars]_vars

C6_Witness ==
  \E p \in CallIds :
    /\ calls[p].op = "refresh"
    /\ calls[p].pc = "failed"
    /\ calls[p].err = "token"
    /\ Truthy(accessToken[calls[p].client])
    /\ Truthy(refreshToken[calls[p].client])
    /\ Truthy(tokenExpiry[calls[p].client])

\* C7: the step in which refreshAccessToken handles a 2xx token response sets
\* accessToken to the response's access_token, tokenExpiry to now + expires_in
\* seconds (unset when expires_in is absent), and refreshToken to the response's
\* refresh_token when it carries one; otherwise refreshToken keeps its value, so
\* a held refresh token is never cleared.
C7_RefreshSuccessStores ==
  [][\A p \in CallIds :
       (/\ calls[p].pc = "r_post"
        /\ calls[p].resp.st = "ok"
        /\ calls'[p].pc \in {"done", "g_resume"})
         => LET c == calls[p].client
                r == calls[p].resp
            IN /\ accessToken'[c] = r.at
               /\ r.rt # Null => refreshToken'[c] = r.rt
               /\ r.rt = Null => refreshToken'[c] = refreshToken[c]
               /\ refreshToken[c] # Null => refreshToken'[c] # Null
               /\ r.exp = Null => tokenExpiry'[c] = Null
               /\ r.exp > 0 => tokenExpiry'[c] = now + r.exp * 1000]_vars

C7_Witness ==
  \E p \in CallIds :
    /\ calls[p].op = "refresh"
    /\ calls[p].pc = "done"
    /\ accessToken[calls[p].client] = calls[p].result
    /\ Truthy(refreshToken[calls[p].client])
    /\ refreshToken[calls[p].client] # calls[p].result

\* C8: for a client that holds an access token, a tracked expiry E and a refresh
\* token, and whose caller awaits each call: getValidAccessToken called with
\* now <= E - 30s returns the stored token in the same step with no network call;
\* called with now > E - 30s it starts a refresh, sends at most one token POST,
\* and when it returns, it has sent exactly one and returns the access_token of
\* that POST's response, the one the server issued last; when it fails it
\* returns no token.
C8_GetValidRefreshesOnce ==
  [][\A p \in CallIds :
       /\ (/\ Started(p, "gva")
           /\ Truthy(accessToken[calls'[p].client])
           /\ Truthy(tokenExpiry[calls'[p].client])
           /\ Truthy(refreshToken[calls'[p].client]))
            => IF now <= tokenExpiry[calls'[p].client] - SkewMs
                 THEN /\ calls'[p].pc = "done"
                      /\ calls'[p].result = accessToken[calls'[p].client]
                      /\ calls'[p].gets = 0
                      /\ calls'[p].posts = 0
                      /\ NetPending' = NetPending
                 ELSE /\ calls'[p].pc = "r_meta"
                      /\ calls'[p].refreshed
       /\ calls'[p].op = "gva" => calls'[p].posts <= 1
       /\ (calls'[p].op = "gva" /\ calls'[p].refreshed /\ calls'[p].pc = "done"
             /\ calls[p].pc # "done")
            => /\ calls'[p].posts = 1
               /\ calls[p].resp.st = "ok"
               /\ calls'[p].result = calls[p].resp.at
               /\ calls'[p].result = issued
               /\ calls'[p].result = accessToken'[calls'[p].client]
       /\ (calls'[p].op = "gva" /\ calls'[p].pc = "failed")
            => calls'[p].result = Null]_vars

C8_Witness ==
  \E p \in CallIds :
    /\ calls[p].op = "gva"
    /\ calls[p].pc = "done"
    /\ calls[p].refreshed
    /\ calls[p].posts = 1
    /\ calls[p].result = accessToken[calls[p].client]

ValidOnlyBeforeSkew(c) == tokenExpiry[c] = Null \/ now < tokenExpiry[c] - SkewMs

\* C9 as stated: whenever hasValidToken() is true, and whenever
\* getValidAccessToken returns the stored token without refreshing, no expiry is
\* tracked or now < E - 30s.
C9_ValidOnlyBeforeSkew ==
  [][/\ \A c \in Clients : HasValidToken(c) => ValidOnlyBeforeSkew(c)
     /\ \A p \in CallIds :
          (Started(p, "gva") /\ calls'[p].pc = "done")
            => ValidOnlyBeforeSkew(calls'[p].client)]_vars

HasValidOnlyBeforeExpiry ==
  \A c \in Clients : HasValidToken(c) => (tokenExpiry[c] = Null \/ now < tokenExpiry[c])

\* C9 as amended: whenever hasValidToken() is true, no expiry is tracked or
\* now < E; whenever getValidAccessToken returns the stored token without
\* refreshing, no expiry is tracked or now <= E - 30s.
C9_ValidUntilExpiryRefreshFromSkew ==
  [][/\ HasValidOnlyBeforeExpiry
     /\ HasValidOnlyBeforeExpiry'
     /\ \A p \in CallIds :
          (Started(p, "gva") /\ calls'[p].pc = "done")
            => \/ tokenExpiry[calls'[p].client] = Null
               \/ now <= tokenExpiry[calls'[p].client] - SkewMs]_vars

C9_Witness ==
  /\ HasValidToken("A")
  /\ tokenExpiry["A"] # Null
  /\ now = tokenExpiry["A"] - SkewMs
  /\ \E p \in CallIds :
       calls[p].op = "gva" /\ calls[p].pc = "done" /\ ~calls[p].refreshed

\* C10: hasValidToken() returns true exactly when an access token is stored and
\* no expiry is tracked or now is before the tracked expiry; the call returns in
\* the step that makes it, changes no token field and issues no network call.
C10_HasValidTokenPure ==
  [][\A p \in CallIds :
       Started(p, "hvt")
         => LET c == calls'[p].client
            IN /\ calls'[p].valid =
                    (accessToken[c] # Null /\ (tokenExpiry[c] = Null \/ now < tokenExpiry[c]))
               /\ calls'[p].pc = "done"
               /\ calls'[p].gets = 0
               /\ calls'[p].posts = 0
               /\ NetPending' = NetPending
               /\ UNCHANGED tokenVars]_vars

C10_Witness ==
  \E p \in CallIds :
    /\ calls[p].op = "hvt"
    /\ ~calls[p].valid
    /\ accessToken[calls[p].client] # Null
    /\ tokenExpiry[calls[p].client] # Null
    /\ now >= tokenExpiry[calls[p].client]

\* C11: the step in which exchangeCodeForTokens handles a 2xx token response sets
\* accessToken to the response's access_token, refreshToken to the response's
\* refresh_token (to none when the response carries none, whatever was held), and
\* tokenExpiry to now + expires_in seconds for every response that carries
\* expires_in, 0 included; tokenExpiry is unset only when expires_in is absent.
C11_ExchangeStoresResponse ==
  [][\A p \in CallIds :
       (/\ calls[p].pc = "x_post"
        /\ calls[p].resp.st = "ok"
        /\ calls'[p].pc \in {"done", "cb_resume"})
         => LET c == calls[p].client
                r == calls[p].resp
            IN /\ accessToken'[c] = r.at
               /\ refreshToken'[c] = r.rt
               /\ r.exp = Null => tokenExpiry'[c] = Null
               /\ r.exp # Null => tokenExpiry'[c] = now + r.exp * 1000]_vars

\* C12: getValidAccessToken() called while no access token is stored (before the
\* first successful exchange, or after clearTokens()) fails with the
\* not-authenticated error in the step that makes the call: no metadata GET, no
\* token POST, and accessToken, refreshToken and tokenExpiry are unchanged.
C12_NotAuthenticatedNoEffect ==
  [][\A p \in CallIds :
       (Started(p, "gva") /\ accessToken[calls'[p].client] = Null)
         => /\ calls'[p].pc = "failed"
            /\ calls'[p].err = "not_authenticated"
            /\ calls'[p].result = Null
            /\ ~calls'[p].refreshed
            /\ calls'[p].gets = 0
            /\ calls'[p].posts = 0
            /\ NetPending' = NetPending
            /\ UNCHANGED tokenVars]_vars

\* a call that failed so after a token had been issued and stored, and cleared
C12_Witness ==
  \E p \in CallIds :
    /\ calls[p].op = "gva"
    /\ calls[p].pc = "failed"
    /\ calls[p].err = "not_authenticated"
    /\ accessToken[calls[p].client] = Null
    /\ issued > 0

C14_ResourceIndicatorSent ==
  \A p \in CallIds :
    /\ (calls[p].op = "start" /\ calls[p].pc = "done")
         => /\ calls[p].authUrl # NoUrl
            /\ FormDecode(calls[p].authUrl.resource) = MCP_SERVER_URI
    /\ calls[p].pc \in {"x_post", "r_post"}
         => /\ calls[p].request # NoRequest
            /\ FormDecode(calls[p].request.resource) = MCP_SERVER_URI
    /\ calls[p].posts > 0 => FormDecode(calls[p].request.resource) = MCP_SERVER_URI

\* a refresh request of the client whose configuration has no client secret
C14_Witness ==
  \E p \in CallIds :
    /\ calls[p].client = "B"
    /\ calls[p].pc = "r_post"
    /\ calls[p].request.grant_type = "refresh_token"
    /\ calls[p].request.refresh_token # Null
    /\ calls[p].request.basicAuth = ""
    /\ FormDecode(calls[p].request.resource) = MCP_SERVER_URI

\* C19: a /callback request that carries an error parameter (a non-empty value)
\* is answered 400, authorization denied, in the step that handles it, also when
\* it carries a code and the state of a stored session: no session is looked up,
\* no exchange is started (no metadata GET, no token POST), and the session map
\* and every client's tokens are unchanged.
C19_ErrorCallbackDenied ==
  [][\A p \in CallIds :
       (Started(p, "callback") /\ calls'[p].error # "")
         => /\ calls'[p].pc = "done"
            /\ calls'[p].status = 400
            /\ calls'[p].err = "denied"
            /\ ~calls'[p].lookedUp
            /\ calls'[p].gets = 0
            /\ calls'[p].posts = 0
            /\ NetPending' = NetPending
            /\ UNCHANGED <<authSessions, tokenVars>>]_vars

C19_Witness ==
  \E p \in CallIds :
    /\ calls[p].op = "callback"
    /\ calls[p].error # ""
    /\ calls[p].code # ""
    /\ calls[p].state \in States
    /\ authSessions[calls[p].state] # NoSession
    /\ calls[p].status = 400
    /\ calls[p].err = "denied"

\* C20: a /callback request without error is answered 400 in the step that
\* handles it, as malformed when code or state is missing (or empty), and as
\* Invalid Session when both are given and no session is stored under state; in
\* both cases no exchange is started and the session map and every client's
\* tokens are unchanged.
C20_MalformedOrUnknownRejected ==
  [][\A p \in CallIds :
       (Started(p, "callback") /\ calls'[p].error = "")
         => LET r == calls'[p]
                rejected == /\ r.pc = "done"
                            /\ r.status = 400
                            /\ r.gets = 0
                            /\ r.posts = 0
                            /\ NetPending' = NetPending
                            /\ UNCHANGED <<authSessions, tokenVars>>
            IN /\ (r.code = "" \/ r.state = "")
                    => rejected /\ r.err = "malformed" /\ ~r.lookedUp
               /\ (r.code # "" /\ r.state # "" /\ authSessions[r.state] = NoSession)
                    => rejected /\ r.err = "invalid_session"]_vars

\* a redirect without code for the state of a stored session
C20_Witness ==
  \E p \in CallIds :
    /\ calls[p].op = "callback"
    /\ calls[p].error = ""
    /\ calls[p].code = ""
    /\ calls[p].state \in States
    /\ authSessions[calls[p].state] # NoSession
    /\ calls[p].status = 400
    /\ calls[p].err = "malformed"

\* C15: whenever the resource server has dispatched an MCP method for an inbound
\* request (over POST /mcp or over the WebSocket), that request carried a bearer
\* token, validateToken was called on it and accepted it, and the audience of
\* the verdict is the canonical resource URI.
C15_DispatchOnlyWithAcceptedToken ==
  \A p \in ReqIds :
    requests[p].dispatched # ""
      => /\ requests[p].dispatched \in MCP_METHODS
         /\ StartsWith(requests[p].authorization, BearerPrefix)
         /\ requests[p].validated
         /\ requests[p].verdict.valid
         /\ requests[p].verdict.audience = MCP_SERVER_URI

C17_MissingBearerUnauthorized ==
  \A p \in ReqIds :
    (/\ requests[p].transport = "http"
     /\ \/ requests[p].authorization = NoHeader
        \/ Len(requests[p].authorization) < 7
        \/ SubSeq(requests[p].authorization, 1, 7) # <<"B", "e", "a", "r", "e", "r", " ">>)
      => /\ requests[p].pc = "responded"
         /\ requests[p].status = 401
         /\ requests[p].wwwAuthenticate.scheme = "Bearer"
         /\ requests[p].wwwAuthenticate.realm = MCP_SERVER_URI
         /\ requests[p].wwwAuthenticate.resource = MCP_SERVER_URI
         /\ requests[p].error = "unauthorized"
         /\ ~requests[p].validated
         /\ requests[p].dispatched = ""
         /\ ~requests[p].hasResult

\* a well-formed tools/call request under another authentication scheme
C17_Witness ==
  \E p \in ReqIds :
    /\ requests[p].transport = "http"
    /\ requests[p].authorization # NoHeader
    /\ ~StartsWith(requests[p].authorization, BearerPrefix)
    /\ requests[p].body.method = "tools/call"
    /\ ~InvalidRequest(requests[p].body)
    /\ requests[p].status = 401
    /\ requests[p].error = "unauthorized"

\* C18: once validateToken has been called for a POST /mcp request and the token
\* did not pass (valid = false: a token shorter than 10 characters, or an
\* exception inside the validator; or a valid verdict with another audience),
\* the request is answered 401 invalid_token with the WWW-Authenticate header,
\* or 403 for the wrong audience, never 500, and no method is dispatched.
C18_ValidationFailureIs401Or403 ==
  \A p \in ReqIds :
    (/\ requests[p].transport = "http"
     /\ requests[p].validated
     /\ requests[p].pc # "validating"
     /\ \/ Len(requests[p].token) < 10
        \/ requests[p].inner = "throws"
        \/ ~requests[p].verdict.valid
        \/ requests[p].verdict.audience # MCP_SERVER_URI)
      => /\ requests[p].pc = "responded"
         /\ requests[p].status \in {401, 403}
         /\ requests[p].status # 500
         /\ requests[p].status = 403 <=> requests[p].verdict.valid
         /\ requests[p].status = 401
              => /\ requests[p].error = "invalid_token"
                 /\ requests[p].wwwAuthenticate = WwwAuthenticate
         /\ requests[p].dispatched = ""

\* a request whose token is one character too short, answered 401 invalid_token
C18_Witness ==
  \E p \in ReqIds :
    /\ requests[p].transport = "http"
    /\ requests[p].validated
    /\ Len(requests[p].token) = 9
    /\ ~requests[p].verdict.valid
    /\ requests[p].status = 401
    /\ requests[p].error = "invalid_token"

\* C21: the step in which exchangeCodeForTokens stores the tokens of a 2xx
\* response in a client instance is made only for a state and code verifier
\* that an earlier startAuthorization call on that same instance returned.
C21_ExchangeOnlyOfStartedFlow ==
  [][\A p \in CallIds :
       (/\ calls[p].pc = "x_post"
        /\ calls[p].resp.st = "ok"
        /\ accessToken'[calls[p].client] = calls[p].resp.at)
         => [state |-> calls[p].state, codeVerifier |-> calls[p].codeVerifier,
             oauthClient |-> calls[p].client] \in started]_vars

\* C22: once initializeAuth has shown the authorization URL of the flow it
\* started, the session {state, codeVerifier, client} of that flow is stored
\* with the callback server under its state, and initializeAuth itself sends no
\* token request: the exchange is left to the /callback handler.
C22_SessionStoredBeforeUrlShown ==
  \A p \in CallIds :
    (calls[p].op = "initializeAuth" /\ calls[p].urlShown)
      => /\ GetSession(calls[p].state) =
              [state |-> calls[p].state, codeVerifier |-> calls[p].codeVerifier,
               oauthClient |-> calls[p].client]
         /\ calls[p].posts = 0

\* C23: a step changes accessToken, refreshToken or tokenExpiry of a client only
\* when it is exchangeCodeForTokens or refreshAccessToken handling a 2xx token
\* response of that client, or clearTokens; every step of
\* getAuthorizationServerMetadata, registerClient, startAuthorization,
\* hasValidToken and of a getValidAccessToken call that does not refresh leaves
\* all three unchanged.
C23_TokensChangeOnlyByExchangeRefreshClear ==
  [][/\ \A c \in Clients :
          <<accessToken'[c], refreshToken'[c], tokenExpiry'[c]>>
              # <<accessToken[c], refreshToken[c], tokenExpiry[c]>>
            => \E p \in CallIds :
                 \/ /\ calls[p].client = c
                    /\ calls[p].pc \in {"x_post", "r_post"}
                    /\ calls[p].resp.st = "ok"
                    /\ calls'[p].pc \in {"done", "cb_resume", "g_resume"}
                 \/ Started(p, "clear") /\ calls'[p].client = c
     /\ \A p \in CallIds :
          (/\ calls'[p] # calls[p]
           /\ \/ calls'[p].op \in {"metadata", "register", "start", "hvt"}
              \/ calls'[p].op = "initializeAuth" /\ calls[p].pc \in {"idle", "reg_meta", "reg_post", "s_meta"}
              \/ calls'[p].op = "gva" /\ ~calls'[p].refreshed)
            => UNCHANGED tokenVars]_vars

\* startAuthorization returned on a client that holds all three token fields
C23_Witness ==
  \E p \in CallIds :
    /\ calls[p].op = "start"
    /\ calls[p].pc = "done"
    /\ calls[p].authUrl # NoUrl
    /\ Truthy(accessToken[calls[p].client])
    /\ Truthy(refreshToken[calls[p].client])
    /\ Truthy(tokenExpiry[calls[p].client])

\* C24: every step of a /callback for the state of a session stored with one
\* client instance leaves accessToken, refreshToken and tokenExpiry of every
\* other instance unchanged, and the step that stores the tokens of its
\* exchange stores the response's access token in that instance and in no other.
C24_CallbackTouchesOnlyItsClient ==
  [][\A p \in CallIds : \A f \in Flows :
       (/\ calls'[p].op = "callback"
        /\ calls'[p] # calls[p]
        /\ calls'[p].state = f.state)
         => \A c \in Clients \ {f.oauthClient} :
              /\ accessToken'[c] = accessToken[c]
              /\ refreshToken'[c] = refreshToken[c]
              /\ tokenExpiry'[c] = tokenExpiry[c]
              /\ (calls[p].pc = "x_post" /\ calls'[p].pc = "cb_resume")
                   => /\ accessToken'[f.oauthClient] = calls[p].resp.at
                      /\ accessToken'[c] # calls[p].resp.at]_vars

\* a redirect for A's state answered 200 while B holds tokens of its own and a
\* session of B is stored
C24_Witness ==
  \E p \in CallIds :
    /\ calls[p].op = "callback"
    /\ calls[p].state = "s1"
    /\ calls[p].status = 200
    /\ Truthy(accessToken["A"])
    /\ Truthy(accessToken["B"])
    /\ accessToken["A"] # accessToken["B"]
    /\ authSessions["s2"] # NoSession
    /\ authSessions["s2"].oauthClient = "B"

\* C25: the session map holds under every state exactly the arguments of the
\* most recent storeSession for that state (a later store replaces an earlier
\* one; nothing else, getSession included, changes the map); getSession(S)
\* returns that session, and returns not-found, without raising, for a state
\* under which nothing was stored.
C25_SessionMapRoundTrip ==
  /\ \A s \in States : authSessions[s] = lastStored[s]
  /\ \A p \in CallIds :
       /\ calls[p].op = "storeSession"
            => authSessions[calls[p].state] =
                 [state |-> calls[p].state, codeVerifier |-> calls[p].codeVerifier,
                  oauthClient |-> calls[p].client]
       /\ calls[p].op = "getSession"
            => /\ calls[p].pc = "done"
               /\ calls[p].err = ""
               /\ calls[p].session =
                    IF calls[p].state \in States /\ lastStored[calls[p].state] # NoSession
                      THEN lastStored[calls[p].state]
                      ELSE NoSession

\* getSession returned the session of a store with other than the first values
\* while another state holds a session of its own
C25_Witness ==
  \E p \in CallIds :
    /\ calls[p].op = "getSession"
    /\ calls[p].state = "s1"
    /\ calls[p].session = [state |-> "s1", codeVerifier |-> "v2", oauthClient |-> "B"]
    /\ authSessions["s2"] = [state |-> "s2", codeVerifier |-> "v1", oauthClient |-> "A"]

\* C26: the step in which clearTokens() runs, from whatever token state, leaves
\* accessToken, refreshToken and tokenExpiry all empty, so that hasValidToken()
\* is false and a getValidAccessToken() or refreshAccessToken() made next fails
\* in the step that makes it, with no metadata GET and no token POST; on a
\* client whose fields are already empty it changes nothing; and every
\* hasValidToken, getValidAccessToken and refreshAccessToken call made while the
\* fields are empty behaves so.
C26_ClearTokensEmptiesAll ==
  [][\A p \in CallIds : \A c \in Clients :
       LET empty == /\ calls'[p].client = c
                    /\ accessToken[c] = Null /\ refreshToken[c] = Null /\ tokenExpiry[c] = Null
       IN
       /\ (Started(p, "clear") /\ calls'[p].client = c)
            => /\ accessToken'[c] = Null
               /\ refreshToken'[c] = Null
               /\ tokenExpiry'[c] = Null
               /\ ~HasValidToken(c)'
               /\ GetValidEnter([NoCall EXCEPT !.op = "gva", !.client = c])'.pc = "failed"
               /\ GetValidEnter([NoCall EXCEPT !.op = "gva", !.client = c])'.gets = 0
               /\ RefreshEnter([NoCall EXCEPT !.op = "refresh", !.client = c])'.pc = "failed"
               /\ RefreshEnter([NoCall EXCEPT !.op = "refresh", !.client = c])'.gets = 0
               /\ NetPending' = {}
               /\ empty => UNCHANGED tokenVars
       /\ (Started(p, "hvt") /\ empty) => ~calls'[p].valid
       /\ (Started(p, "gva") /\ empty)
            => /\ calls'[p].pc = "failed"
               /\ calls'[p].err = "not_authenticated"
               /\ calls'[p].gets = 0
               /\ calls'[p].posts = 0
       /\ (Started(p, "refresh") /\ empty)
            => /\ calls'[p].pc = "failed"
               /\ calls'[p].err = "no_refresh_token"
               /\ calls'[p].gets = 0
               /\ calls'[p].posts = 0]_vars

\* clearTokens has run on a client to which the server had issued an access
\* token and a refresh token
C26_Witness ==
  \E p \in CallIds :
    /\ calls[p].op = "clear"
    /\ issued > 0
    /\ latestRt[calls[p].client] # Null
    /\ accessToken[calls[p].client] = Null
    /\ refreshToken[calls[p].client] = Null
    /\ tokenExpiry[calls[p].client] = Null

\* C27: while a client's access token is empty (clearTokens has returned and no
\* exchange has succeeded since), hasValidToken() becomes true again only by the
\* step in which an exchangeCodeForTokens call handles its 2xx token response;
\* in particular not by a refreshAccessToken call that was awaiting the network
\* when clearTokens ran.
C27_ClearedUntilExchange ==
  [][\A c \in Clients :
       (accessToken[c] = Null /\ HasValidToken(c)')
         => \E p \in CallIds :
              /\ calls[p].client = c
              /\ calls[p].op \in {"exchange", "callback", "initializeAuth"}
              /\ calls[p].pc = "x_post"
              /\ calls'[p].pc \in {"done", "cb_resume"}]_vars

\* C28: getAuthorizationServerMetadata returns only a document that names both
\* authorization_endpoint and token_endpoint (it fails on a non-2xx status and
\* on a document that lacks either); so no authorization URL was built on a
\* document without authorization_endpoint and no token request was sent on a
\* document without token_endpoint.
C28_IncompleteMetadataRejected ==
  \A p \in CallIds :
    /\ (calls[p].op = "metadata" /\ calls[p].pc = "done")
         => /\ calls[p].metadata.fetched
            /\ calls[p].metadata.authorization_endpoint # Undefined
            /\ calls[p].metadata.token_endpoint # Undefined
    /\ calls[p].authUrl # NoUrl
         => /\ calls[p].metadata.authorization_endpoint # Undefined
            /\ calls[p].authUrl.base # "undefined"
    /\ calls[p].posts > 0 => calls[p].metadata.token_endpoint # Undefined

\* C29: registerClient fails without a registration POST when the metadata GET
\* fails or the document names no registration_endpoint, and fails after its one
\* POST when the registration response is not 2xx; whenever that happens inside
\* initializeAuth, initializeAuth has gone on to startAuthorization (it has
\* issued the metadata GET of startAuthorization); and the client_id of every
\* authorization URL and of every token request is the one of the client's
\* configuration, whatever the registration did.
C29_RegistrationFailureNotFatal ==
  \A p \in CallIds :
    LET r == calls[p] IN
    /\ r.regOutcome \in {"metadata", "unsupported"} => r.regPosts = 0 /\ r.registration = NoRegistration
    /\ r.regOutcome = "unsupported" => r.metadata.fetched
    /\ r.regOutcome = "rejected" => r.regPosts = 1
    /\ (r.op = "register" /\ r.regOutcome \in {"metadata", "unsupported", "rejected"})
         => r.pc = "failed" /\ r.err = r.regOutcome
    /\ (r.op = "register" /\ r.pc = "done") => r.regOutcome = "registered" /\ r.regPosts = 1
    /\ (r.op = "initializeAuth" /\ r.regOutcome # "")
         => /\ r.gets >= 2
            /\ r.pc \in {"s_meta", "x_meta", "x_post", "done", "failed"}
            /\ r.pc = "failed" => r.gets >= 2 /\ r.err \in {"metadata", "fetch", "token"}
    /\ r.authUrl # NoUrl => r.authUrl.client_id = Config(r.client).clientId
    /\ r.request # NoRequest => r.request.client_id = Config(r.client).clientId

\* initializeAuth completed its exchange after a registration that failed for
\* want of a registration_endpoint
C29_Witness ==
  \E p \in CallIds :
    /\ calls[p].op = "initializeAuth"
    /\ calls[p].regOutcome = "unsupported"
    /\ calls[p].regPosts = 0
    /\ calls[p].pc = "done"
    /\ calls[p].authUrl.client_id = "agentic_ai"
    /\ calls[p].request.client_id = "agentic_ai"
    /\ Truthy(accessToken[calls[p].client])

\* C30: the code verifier of an authorization attempt (one that
\* startAuthorization has returned) is no part of the metadata GET, of the
\* registration POST or of the authorization URL, which carries its S256
\* challenge instead; the only message that carries it is the
\* authorization_code token request, sent to the token endpoint of the metadata.
C30_VerifierOnlyInTokenExchange ==
  \A f \in started : \A p \in CallIds :
    LET r == calls[p]
        v == f.codeVerifier
    IN
    /\ \A i \in DOMAIN MetadataUrl(r.client) : MetadataUrl(r.client)[i] # v
    /\ \A k \in {"client_name", "grant_types", "response_types",
                  "token_endpoint_auth_method"} : r.registration[k] # v
    /\ \A k \in {"client_uri", "redirect_uris", "scope"} :
         \A i \in DOMAIN r.registration[k] : r.registration[k][i] # v
    /\ \A k \in {"base", "response_type", "client_id", "state", "code_challenge_method"} :
         r.authUrl[k] # v
    /\ \A k \in {"redirect_uri", "scope", "resource"} :
         \A i \in DOMAIN r.authUrl[k] : r.authUrl[k][i] # v
    /\ (r.authUrl # NoUrl /\ r.codeVerifier = v)
         => /\ r.authUrl.code_challenge = <<"S256", v>>
            /\ r.authUrl.code_challenge_method = "S256"
    /\ \A k \in {"grant_type", "client_id", "code", "basicAuth"} : r.request[k] # v
    /\ \A k \in {"redirect_uri", "resource"} :
         \A i \in DOMAIN r.request[k] : r.request[k][i] # v
    /\ r.request.code_verifier = v
         => /\ r.request.grant_type = "authorization_code"
            /\ r.posts = 1
            /\ r.metadata.token_endpoint # Undefined
    /\ r.request.grant_type = "refresh_token" => r.request.code_verifier = ""

\* initializeAuth has sent its registration POST, shown the URL with the
\* challenge, and its token request with the verifier is at the token endpoint
C30_Witness ==
  \E p \in CallIds :
    /\ calls[p].op = "initializeAuth"
    /\ calls[p].regPosts = 1
    /\ calls[p].registration # NoRegistration
    /\ calls[p].urlShown
    /\ calls[p].pc = "x_post"
    /\ calls[p].codeVerifier = "v1"
    /\ calls[p].request.code_verifier = "v1"
    /\ calls[p].authUrl.code_challenge = <<"S256", "v1">>
    /\ [state |-> calls[p].state, codeVerifier |-> "v1", oauthClient |-> calls[p].client] \in started

(***************************************************************************)
(* C31: every pair generatePKCE produces has codeChallenge =                *)
(* base64url(SHA256(codeVerifier)); the verifier startAuthorization returns *)
(* is the one whose S256 challenge is in the authorization URL, together    *)
(* with the returned state; and the state and the verifier a                *)
(* startAuthorization call returns differ from those every earlier call     *)
(* returned.                                                               *)
(***************************************************************************)
C31_FreshPkcePerAuthorization ==
  [][/\ \A p \in CallIds :
          /\ (calls'[p].op = "generatePKCE")
               => /\ calls'[p].codeChallenge = CodeChallenge(calls'[p].codeVerifier)
                  /\ calls'[p].codeChallenge[1] = "S256"
          /\ (calls'[p].op = "start" /\ calls'[p].pc = "done")
               => /\ calls'[p].authUrl.code_challenge = CodeChallenge(calls'[p].codeVerifier)
                  /\ calls'[p].authUrl.code_challenge_method = "S256"
                  /\ calls'[p].authUrl.state = calls'[p].state
          /\ (calls[p].pc = "s_meta" /\ calls'[p].pc = "done")
               => /\ \A f \in started : /\ f.state # calls'[p].state
                                        /\ f.codeVerifier # calls'[p].codeVerifier
                  /\ [state |-> calls'[p].state, codeVerifier |-> calls'[p].codeVerifier,
                      oauthClient |-> calls'[p].client] \in started'
    ]_vars

\* a second startAuthorization has returned
C31_Witness ==
  /\ Cardinality(started) = 2
  /\ \E p \in CallIds : calls[p].op = "start" /\ calls[p].pc = "done"

(***************************************************************************)
(* C32: a stored session leaves the session map only in the step in which   *)
(* a /callback that carried its state and a code answers 200; a denial      *)
(* callback naming the state, callbacks for other states, stop() and        *)
(* start(), and token operations of the client leave it stored, and a       *)
(* callback with a code then still finds it.                               *)
(***************************************************************************)
C32_UnredeemedSessionStays ==
  [][/\ \A s \in States :
          (authSessions[s] # NoSession /\ authSessions'[s] # authSessions[s])
            => \/ \E p \in CallIds :
                    /\ calls[p].op = "callback" /\ calls[p].pc = "cb_resume"
                    /\ calls[p].state = s /\ calls[p].code # "" /\ calls[p].error = ""
                    /\ calls'[p].status = 200
                    /\ authSessions'[s] = NoSession
               \/ /\ authSessions'[s] = lastStored'[s]
                  /\ lastStored'[s] # NoSession
                  /\ calls' = calls
     /\ \A p \in CallIds :
          (/\ calls[p].op = "none" /\ calls'[p].op = "callback"
           /\ calls'[p].code # "" /\ calls'[p].error = ""
           /\ authSessions[calls'[p].state] # NoSession)
            => /\ calls'[p].lookedUp
               /\ calls'[p].pc = "x_meta"
               /\ calls'[p].codeVerifier = authSessions[calls'[p].state].codeVerifier
    ]_vars

\* a denial callback naming a stored state was answered by the listening
\* server, and the session is still there
C32_Witness ==
  \E p \in CallIds :
    /\ calls[p].op = "callback" /\ calls[p].error # "" /\ calls[p].status = 400
    /\ authSessions[calls[p].state] # NoSession
    /\ listening

(***************************************************************************)
(* C33: a well-formed JSON-RPC 2.0 request that passed authorization at     *)
(* POST /mcp is answered by exactly one response with jsonrpc '2.0' and the *)
(* id of the request, holding a result (of one of the five methods) or an   *)
(* error, never both; an unknown method gives -32601, a handler that throws *)
(* gives -32603.                                                           *)
(***************************************************************************)
C33_OneJsonRpcResponsePerRequest ==
  \A p \in ReqIds :
    LET rec == requests[p] IN
      /\ rec.responses <= 1
      /\ (/\ rec.transport = "http" /\ rec.pc = "responded"
          /\ rec.verdict.valid /\ ~AudienceMismatch(rec.verdict)
          /\ WellFormedRequest(rec.body))
           => /\ rec.responses = 1
              /\ rec.responseJsonrpc = "2.0"
              /\ rec.responseId = rec.body.id
              /\ rec.hasResult # (rec.rpcError # "")
              /\ rec.hasResult => rec.dispatched \in MCP_METHODS
              /\ (rec.body.method \notin MCP_METHODS)
                   => /\ rec.rpcError # ""
                      /\ MCP_ERROR_CODES[rec.rpcError] = -32601
              /\ (rec.dispatched # "" /\ ~rec.hasResult)
                   => /\ rec.rpcError # ""
                      /\ MCP_ERROR_CODES[rec.rpcError] = -32603

(***************************************************************************)
(* C34: an exchangeCodeForTokens that fails after the state check (the      *)
(* metadata GET fails, or the token endpoint answers non-2xx) writes no     *)
(* token field at any of its steps, so the client holds what it held before *)
(* the call; the /callback handler then answers 500, a direct caller gets   *)
(* the rejection.                                                          *)
(***************************************************************************)
C34_FailedExchangeKeepsTokens ==
  [][\A p \in CallIds :
       /\ (calls[p].op = "none" /\ calls'[p].op \in {"exchange", "callback"})
            => UNCHANGED tokenVars
       /\ (calls[p].pc \in {"x_meta", "x_post"} /\ calls'[p].pc \in {"x_meta", "x_post"})
            => UNCHANGED tokenVars
       /\ (calls[p].pc \in {"x_meta", "x_post"} /\ calls'[p].err # "")
            => /\ UNCHANGED tokenVars
               /\ calls'[p].err \in {"metadata", "token"}
               /\ calls'[p].op = "callback"
                    => calls'[p].pc = "done" /\ calls'[p].status = 500
               /\ calls'[p].op = "exchange" => calls'[p].pc = "failed"
    ]_vars

\* a callback whose exchange failed was answered 500 while the client still
\* holds the tokens of an earlier authorization
C34_Witness ==
  \E p \in CallIds :
    /\ calls[p].op = "callback" /\ calls[p].err = "token" /\ calls[p].status = 500
    /\ accessToken[calls[p].client] # Null

(***************************************************************************)
(* C35: a call of startAuthorization, registerClient, exchangeCodeForTokens *)
(* (past the state check) or refreshAccessToken (with a refresh token held) *)
(* issues one metadata GET and no more, has issued it when a registration   *)
(* or token POST leaves, and after a failed metadata GET ends with the      *)
(* error, with that single GET and no POST.                                *)
(***************************************************************************)
C35_OneMetadataGetNoRetry ==
  \A p \in CallIds :
    LET rec == calls[p] IN
      rec.op \in {"start", "register", "exchange", "refresh", "gva"}
        => /\ rec.gets <= 1 /\ rec.posts <= 1 /\ rec.regPosts <= 1
           /\ (rec.posts + rec.regPosts > 0) => rec.gets = 1
           /\ rec.pc \in {"s_meta", "reg_meta", "x_meta", "r_meta"}
                => rec.gets = 1 /\ rec.posts + rec.regPosts = 0
           /\ (rec.op \in {"start", "register"} \/ rec.err \notin {"", "csrf", "no_refresh_token",
                                                                  "not_authenticated"})
                => rec.gets = 1
           /\ rec.err \in {"csrf", "no_refresh_token", "not_authenticated"}
                => rec.gets = 0 /\ rec.posts = 0
           /\ rec.err = "metadata"
                => /\ rec.pc = "failed"
                   /\ rec.gets = 1 /\ rec.posts = 0 /\ rec.regPosts = 0

\* a refresh with a refresh token held has failed on its metadata GET
C35_Witness ==
  \E p \in CallIds :
    /\ calls[p].op = "refresh" /\ calls[p].err = "metadata" /\ calls[p].pc = "failed"
    /\ calls[p].gets = 1
    /\ refreshToken[calls[p].client] # Null

(***************************************************************************)
(* C36: sendHTTPRequest ends with a result or an error once its network     *)
(* calls are answered, and sends at most two POSTs to /mcp: after a 401 to  *)
(* the first POST it refreshes once and retries once with the token the     *)
(* client then holds; a retry that is answered non-2xx (a second 401 too)   *)
(* ends with an error; after a failed refresh no retry POST is sent.        *)
(***************************************************************************)
HttpAtMostOneRetry ==
  /\ http.posts <= 2 /\ Len(http.sent) = http.posts /\ http.refreshes <= 1
  /\ http.pc \in {"refresh", "token2", "retry"}
       => http.status = 401 /\ http.refreshes = 1
  /\ http.pc \in {"refresh", "token2"} => http.posts = 1
  /\ http.posts = 2
       => /\ http.refreshes = 1
          /\ http.pc \in {"retry", "done", "failed"}
          /\ http.sent[2] # http.sent[1]
          /\ http.pc = "retry" => http.sent[2] = accessToken[http.client]
  /\ http.pc = "done" => ResponseOk(http.status) /\ http.outcome = "result"
  /\ (http.pc = "failed" /\ http.outcome = "http_error")
       => ~ResponseOk(http.status) /\ (http.status = 401 => http.posts = 2)
  /\ (http.pc = "failed" /\ http.refreshes = 1 /\ http.outcome \notin {"http_error", "mcp_error"})
       => http.posts = 1

C37_AuthorizationBeforeJsonRpc ==
  \A p \in ReqIds :
    LET rec == requests[p]
        unauthorized == \/ ~BearerHeader(rec.authorization)
                        \/ /\ rec.validated /\ rec.pc # "validating"
                           /\ (~rec.verdict.valid \/ AudienceMismatch(rec.verdict))
    IN (rec.transport = "http" /\ rec.pc \in {"dispatching", "responded"})
         => /\ rec.validated <=> BearerHeader(rec.authorization)
            /\ (rec.status = 403 \/ rec.rpcError = "INVALID_REQUEST" \/ rec.dispatched # "")
                 => rec.verdict.valid
            /\ (rec.rpcError = "INVALID_REQUEST" \/ rec.dispatched # "")
                 => ~AudienceMismatch(rec.verdict)
            /\ rec.dispatched # "" => ~InvalidRequest(rec.body)
            /\ unauthorized
                 => /\ rec.pc = "responded"
                    /\ rec.status \in {401, 403}
                    /\ rec.rpcError = "" /\ ~rec.hasResult /\ rec.dispatched = ""

(***************************************************************************)
(* C38: every entry of the session map stored under key K has              *)
(* session.state = K; so every exchangeCodeForTokens call of the /callback  *)
(* handler has receivedState = expectedState, and no callback ends with the *)
(* CSRF mismatch.                                                          *)
(***************************************************************************)
C38_SessionKeyedByItsState ==
  /\ \A s \in States : authSessions[s] # NoSession => authSessions[s].state = s
  /\ \A p \in CallIds :
       calls[p].op = "callback"
         => /\ calls[p].err # "csrf"
            /\ (calls[p].lookedUp /\ calls[p].err # "invalid_session")
                 => /\ calls[p].expectedState = calls[p].state
                    /\ calls[p].gets = 1

\* a callback that found its session is in its exchange
C38_Witness ==
  \E p \in CallIds :
    /\ calls[p].op = "callback" /\ calls[p].pc = "x_post"
    /\ calls[p].lookedUp /\ calls[p].expectedState = calls[p].state
    /\ calls[p].state \in States

(***************************************************************************)
(* C39: in every reachable state, for every client, a stored refreshToken  *)
(* or a tracked tokenExpiry implies a stored accessToken: exchange,        *)
(* refresh and clearTokens each write the three fields in one step, so no  *)
(* call that resumes between two other calls' steps sees a partial set.    *)
(***************************************************************************)
C39_TokenSetWrittenTogether ==
  \A c \in Clients :
    (refreshToken[c] # Null \/ tokenExpiry[c] # Null) => accessToken[c] # Null

\* one exchange has stored the full token set while a refresh and another
\* exchange of the same client are suspended at their token requests
C39_Witness ==
  /\ accessToken["A"] # Null /\ refreshToken["A"] # Null /\ tokenExpiry["A"] # Null
  /\ \E p, q \in InFlight :
       /\ calls[p].client = "A" /\ calls[p].pc = "x_post"
       /\ calls[q].client = "A" /\ calls[q].pc = "r_post"

(***************************************************************************)
(* C40: every /callback request is answered exactly once.  A denial, a     *)
(* malformed request and an unknown session are answered 400 before the    *)
(* handler suspends; once the session is found the handler answers 200 or  *)
(* 500 when the metadata and token calls are answered.  No request gets a  *)
(* second response, and while a callback is suspended in its exchange      *)
(* another callback and a storeSession call are both enabled.              *)
(***************************************************************************)
CallbackAnsweredOnce ==
  \A p \in CallIds :
    calls[p].op = "callback"
      => /\ calls[p].responses <= 1
         /\ calls[p].responses = 1 <=> calls[p].pc = "done"
         /\ calls[p].pc = "done" => calls[p].status \in {200, 400, 500}
         /\ calls[p].pc # "done" => calls[p].status = 0
         /\ (\/ Denied(calls[p].error)
             \/ Malformed(calls[p].code, calls[p].state)
             \/ calls[p].err = "invalid_session")
              => /\ calls[p].pc = "done" /\ calls[p].status = 400
                 /\ calls[p].gets = 0 /\ calls[p].posts = 0
         /\ calls[p].status = 400
              => calls[p].err \in {"denied", "malformed", "invalid_session"}
         /\ calls[p].pc # "done"
              => calls[p].lookedUp /\ calls[p].expectedState = calls[p].state

CallbackServerResponsive ==
  (\E p \in CallIds : calls[p].op = "callback" /\ calls[p].pc \in {"x_meta", "x_post"})
    /\ FreeSlots # {}
    => /\ \A s \in States : ENABLED Callback("c1", s, "")
       /\ \A f \in Flows : ENABLED StoreSession(f.state, f.codeVerifier, f.oauthClient)

C40_CallbackAnsweredExactlyOnce ==
  /\ []CallbackAnsweredOnce
  /\ []CallbackServerResponsive
  /\ \A p \in 1..(MaxCalls + 1) :
       (calls[p].op = "callback" /\ calls[p].pc # "done")
         ~> (calls[p].op = "callback" /\ calls[p].pc = "done"
               /\ calls[p].status \in {200, 500} /\ calls[p].responses = 1)

\* a second callback was answered 200 while the first, which arrived earlier,
\* is still suspended at its token request
C40_Witness ==
  \E p, q \in CallIds :
    /\ p < q
    /\ calls[p].op = "callback" /\ calls[p].pc = "x_post"
    /\ calls[q].op = "callback" /\ calls[q].pc = "done" /\ calls[q].status = 200

================================================================================
